---- MODULE Spec2Model ----
(***************************************************************************)
(* Model of BottleneckedHTTPAPI.thread_executor.AbstractSingleThreadExecutor *)
(* (abstract_executor.py) with its request/response value types            *)
(* (request_and_response.py) and the worker thread runner.                 *)
(*                                                                         *)
(* Atomicity: every `with self.__lock_external` / `with                    *)
(* self.__lock_internal` block of the source is one action, since all      *)
(* accesses to the guarded state happen under that lock.  A worker thread  *)
(* walks through the blocks of _process_iteration one action at a time;    *)
(* producer threads interleave freely between them.                        *)
(*                                                                         *)
(* Tokens are the hex digests of a SHA-256 chain.  SHA-256 is modelled as  *)
(* a collision-free encoding of its input (Sha256 below); tokens are       *)
(* positive integers.  A CancelledResponse object that the source uses as  *)
(* a dictionary key (lines 195, 206) is identified by object identity; it  *)
(* is modelled as the negative integer ObjectKey(token).                   *)
(***************************************************************************)
EXTENDS Integers, Sequences, FiniteSets, TLC

\* ------------------------------------------------------------------ bounds
MaxSubmits == 2
MaxCancelMarks == 1
MaxRaceSubmits == 1
MaxThreads == 2
MaxTime == 1
\* constructor arguments of the executor under test
max_handle_requests_and_responses == 2
old_cleanup_time == 0
\* abstract_executor.py:115, `internal_iter_count % 10 == 0`
CleanupPeriod == 10

Threads == 1..MaxThreads
Callers == {"main"}

\* ------------------------------------------------------- values and helpers
NoneMsg == "<None>"
NoState == 0
InvalidTokenMsg == "Invalid token! Tokens must be obtained via queue_request!"
CancelledMsg == "Response is cancelled!"
RejectMsg == "rejected by implementation"

Range(s) == {s[i] : i \in DOMAIN s}

\* list.remove(x): drops the first occurrence of x
RECURSIVE Remove(_, _)
Remove(s, x) ==
    IF s = << >> THEN << >>
    ELSE IF Head(s) = x THEN Tail(s)
    ELSE <<Head(s)>> \o Remove(Tail(s), x)

\* dict.pop(k)
Pop(f, k) == [x \in DOMAIN f \ {k} |-> f[x]]
\* dict[k] = v
Put(f, k, v) == [x \in DOMAIN f \cup {k} |-> IF x = k THEN v ELSE f[x]]
EmptyDict == [x \in {} |-> 0]

\* request_and_response.py
AbstractRequest(static_state) == [static_state |-> static_state]
AbstractResponse(cancelled, error_msg) ==
    [cancelled |-> cancelled, error_msg |-> error_msg, static_state |-> NoState]
ErrorResponse(error_msg) == AbstractResponse(FALSE, error_msg)
\* variant of line 99 that leaves error_msg unset
CancelledWithoutMessage == AbstractResponse(TRUE, NoneMsg)
CancelledResponse == AbstractResponse(TRUE, CancelledMsg)
set_static_state(response, static_state) ==
    [response EXCEPT !.static_state = static_state]
has_error(response) == response.error_msg # NoneMsg
is_cancelled(response) == response.cancelled
is_successful_response(response) == ~(has_error(response) \/ is_cancelled(response))

\* the Response objects the implementation passes to accept()
UserResponses == {AbstractResponse(FALSE, NoneMsg)}

\* identity of the CancelledResponse object created while cancelling token
ObjectKey(token) == 0 - token

\* ------------------------------------------------------------- token chain
\* os.urandom(16) (line 82)
Seeds == {0}
HashBase == MaxSubmits + 2
\* hashlib.sha256(prev + itoken.to_bytes(..) + seed).hexdigest(), collision free
Sha256(prev, itok, sd) == prev * HashBase + itok + sd

RECURSIVE TokenLoop(_, _, _, _)
TokenLoop(ntoken, itok, sd, known) ==
    LET cand == Sha256(ntoken, itok, sd)
    IN IF cand \in known THEN TokenLoop(cand, itok, sd, known) ELSE cand

\* variant of generate_next_token that advances the counter, not the token
StuckToken(itok, strtok, sd, known) ==
    [itoken |-> itok + 1, strtoken |-> strtok]

\* generate_next_token with __strtoken already set (lines 373, 377-381)
generate_next_token(itok, strtok, sd, known) ==
    [itoken |-> itok + 1, strtoken |-> TokenLoop(strtok, itok + 1, sd, known)]

\* ---------------------------------------------------------------- state
VARIABLES
    \* token generator (lines 82-85)
    seed, itoken, strtoken,
    \* external requests and responses (lines 88-92)
    external_requests_to_cancel,
    external_requests_queue_data,
    external_requests_queue,
    external_responses,
    external_request_response_previous_action,
    \* internal requests and responses (lines 95-97)
    internal_requests_queue,
    internal_requests_data,
    internal_responses,
    \* control variables (lines 73, 100-101)
    running, thread, internal_iter_count,
    \* worker threads: position in executor_thread_runner / _process_iteration
    \* and the local variables of the running method; wlocal[w].shutdowns
    \* counts the calls of the user's shutdown() on thread w
    wpc, wlocal,
    \* threads calling start/stop: position inside the call
    cpc,
    \* time.time()
    now,
    \* observations: the tokens handed out in order, the response that
    \* poll_response returned per token, the number of _handle_request_cancel
    \* calls per token, the tokens ever contained in a snapshot passed to
    \* _handle_all_requests, the tokens cancelled while in the external queue
    \* with no iteration in progress, the number of cancel_request calls, and
    \* what start(wait_for_init_complete=True) returned per thread it started
    issued, delivered, cancel_calls, shown, early_cancel, marks, start_result,
    \* SingleThreadExecutorRouterWrapper (router.py lines 54-57, 38-40): the
    \* executor or mapping it was built over ("none" before it is built),
    \* its hash maps, the registered processor pairs, their arity (0 for
    \* None) and the executor tag registered per value
    executor_pool, hashlen, exec_hash_to_exec, exec_to_exec_hash,
    registered_processors, rp_length, registered_processors_to_exec,
    \* observations of the router: per token the value and the preprocessor's
    \* static_state of the queue_request that produced it, the calls of
    \* postprocessors made for it, and what the router's poll_response
    \* returned for it
    routed, post_calls, returned

gen_vars == <<seed, itoken, strtoken>>
ext_vars == <<external_requests_to_cancel, external_requests_queue_data,
              external_requests_queue, external_responses,
              external_request_response_previous_action>>
int_vars == <<internal_requests_queue, internal_requests_data, internal_responses>>
ctl_vars == <<running, thread, internal_iter_count>>
thr_vars == <<wpc, wlocal, cpc>>
obs_vars == <<issued, delivered, cancel_calls, shown, early_cancel, marks,
              start_result>>
rt_vars == <<executor_pool, hashlen, exec_hash_to_exec, exec_to_exec_hash,
             registered_processors, rp_length, registered_processors_to_exec,
             routed, post_calls, returned>>
vars == <<gen_vars, ext_vars, int_vars, ctl_vars, thr_vars, now, obs_vars,
          rt_vars>>

NoResponse == AbstractResponse(FALSE, NoneMsg)

\* arguments of SingleThreadExecutorRouterWrapper(executor_pool): the
\* executor of this model, a dict whose keys are the str tags `tags`, and
\* an object that is neither; NoPool stands for `no router built`
NoPool == [kind |-> "none", tags |-> {}]
SingleExecutor == [kind |-> "executor", tags |-> {}]
DictPool(tags) == [kind |-> "dict", tags |-> tags]
OtherPool == [kind |-> "other", tags |-> {}]

EmptyLocal ==
    [prev_external_requests |-> << >>, prev_external_data |-> EmptyDict,
     responses |-> EmptyDict, to_cancel |-> << >>, success |-> FALSE,
     shutdowns |-> 0]

\* the three locks: who holds them between two actions
\* tmp_lock / init_complete_lock of thread w: held while initialize() runs
init_complete_lock(w) == IF wpc[w] = "initialize" THEN w ELSE 0
\* __lock_internal stays held while the user's _handle_all_requests runs
\* (lines 122-126) and while the worker waits inside stop() (line 131)
lock_internal ==
    IF \E w \in Threads : wpc[w] \in {"handling", "fatal_stop"}
    THEN CHOOSE w \in Threads : wpc[w] \in {"handling", "fatal_stop"} ELSE 0
\* __status_lock stays held while start waits for tmp_lock and stop joins
status_lock ==
    IF \E c \in Callers : cpc[c] \in {"start_wait", "stop_join"}
    THEN CHOOSE c \in Callers : cpc[c] \in {"start_wait", "stop_join"} ELSE "free"

\* __init__ (lines 70-101)
Init ==
    /\ seed \in Seeds
    /\ itoken = 1
    /\ strtoken = Sha256(0, 1, seed)
    /\ external_requests_to_cancel = << >>
    /\ external_requests_queue_data = EmptyDict
    /\ external_requests_queue = << >>
    /\ external_responses = EmptyDict
    /\ external_request_response_previous_action = EmptyDict
    /\ internal_requests_queue = << >>
    /\ internal_requests_data = EmptyDict
    /\ internal_responses = EmptyDict
    /\ running = FALSE
    /\ thread = 0
    /\ internal_iter_count = 0
    /\ wpc = [w \in Threads |-> "unborn"]
    /\ wlocal = [w \in Threads |-> EmptyLocal]
    /\ cpc = [c \in Callers |-> "idle"]
    /\ now = 0
    /\ issued = << >>
    /\ delivered = EmptyDict
    /\ cancel_calls = EmptyDict
    /\ shown = {}
    /\ early_cancel = {}
    /\ marks = 0
    /\ start_result = EmptyDict
    \* no router is built yet
    /\ executor_pool = NoPool
    /\ hashlen = 0
    /\ exec_hash_to_exec = EmptyDict
    /\ exec_to_exec_hash = EmptyDict
    /\ registered_processors = EmptyDict
    /\ rp_length = 0
    /\ registered_processors_to_exec = EmptyDict
    /\ routed = EmptyDict
    /\ post_calls = EmptyDict
    /\ returned = EmptyDict

\* ------------------------------------------------- producer-facing methods
\* tokens a caller can present: those handed out, and the pre-generated one
\* (not handed out yet, so unknown to the executor)
CallerTokens == Range(issued) \cup {strtoken}

\* variant of line 397 that admits one request more (`>` for `>=`)
PoolOverfull(lifecycle) ==
    Cardinality(DOMAIN lifecycle) > max_handle_requests_and_responses

\* line 397
PoolFull(lifecycle) ==
    Cardinality(DOMAIN lifecycle) >= max_handle_requests_and_responses

\* queue_request (lines 396-405): whether it raises PoolFullException, the
\* token it returns, and the state it leaves
QueueOutcome(x) ==
    IF PoolFull(external_request_response_previous_action)
    THEN [raises |-> TRUE, token |-> 0,
          queue |-> external_requests_queue,
          data |-> external_requests_queue_data,
          lifecycle |-> external_request_response_previous_action,
          itoken |-> itoken, strtoken |-> strtoken]
    ELSE LET token == strtoken
             lifecycle == Put(external_request_response_previous_action,
                              token, now)
             gen == generate_next_token(itoken, strtoken, seed, DOMAIN lifecycle)
         IN [raises |-> FALSE, token |-> token,
             queue |-> Append(external_requests_queue, token),
             data |-> Put(external_requests_queue_data, token, x),
             lifecycle |-> lifecycle,
             itoken |-> gen.itoken, strtoken |-> gen.strtoken]

queue_request(x) ==
    LET out == QueueOutcome(x)
    IN /\ external_requests_queue' = out.queue
       /\ external_requests_queue_data' = out.data
       /\ external_request_response_previous_action' = out.lifecycle
       /\ itoken' = out.itoken
       /\ strtoken' = out.strtoken
       /\ issued' = IF out.raises THEN issued ELSE Append(issued, out.token)
       /\ UNCHANGED <<seed, external_requests_to_cancel, external_responses,
                      int_vars, ctl_vars, thr_vars, now, delivered, cancel_calls,
                      shown, early_cancel, marks, start_result>>

\* variant of poll_response that returns the response and keeps the
\* lifecycle entry (line 366 left out)
PollKeepsLifecycle(tok, responses, lifecycle) ==
    IF tok \notin DOMAIN lifecycle
    THEN [responses |-> responses, lifecycle |-> lifecycle,
          kind |-> "response", resp |-> ErrorResponse(InvalidTokenMsg)]
    ELSE IF tok \in DOMAIN responses
    THEN [responses |-> Pop(responses, tok), lifecycle |-> lifecycle,
          kind |-> "response", resp |-> responses[tok]]
    ELSE [responses |-> responses, lifecycle |-> lifecycle,
          kind |-> "None", resp |-> NoResponse]

\* variant of poll_response that drops the lifecycle entry of a token that
\* has no response yet (line 366 outside the `if`)
PollDropsPending(tok, responses, lifecycle) ==
    IF tok \notin DOMAIN lifecycle
    THEN [responses |-> responses, lifecycle |-> lifecycle,
          kind |-> "response", resp |-> ErrorResponse(InvalidTokenMsg)]
    ELSE IF tok \in DOMAIN responses
    THEN [responses |-> Pop(responses, tok), lifecycle |-> Pop(lifecycle, tok),
          kind |-> "response", resp |-> responses[tok]]
    ELSE [responses |-> responses, lifecycle |-> Pop(lifecycle, tok),
          kind |-> "None", resp |-> NoResponse]

\* poll_response (lines 362-367): what it returns (kind "None" for None) and
\* what it leaves of the response store and the lifecycle map
PollOutcome(tok, responses, lifecycle) ==
    IF tok \notin DOMAIN lifecycle
    THEN [responses |-> responses, lifecycle |-> lifecycle,
          kind |-> "response", resp |-> ErrorResponse(InvalidTokenMsg)]
    ELSE IF tok \in DOMAIN responses
    THEN [responses |-> Pop(responses, tok), lifecycle |-> Pop(lifecycle, tok),
          kind |-> "response", resp |-> responses[tok]]
    ELSE [responses |-> responses, lifecycle |-> lifecycle,
          kind |-> "None", resp |-> NoResponse]

\* the poll returns a response taken from the store
Delivers(tok) ==
    /\ tok \in DOMAIN external_request_response_previous_action
    /\ tok \in DOMAIN external_responses

poll_response(tok) ==
    LET out == PollOutcome(tok, external_responses,
                           external_request_response_previous_action)
    IN /\ external_responses' = out.responses
       /\ external_request_response_previous_action' = out.lifecycle
       /\ delivered' = IF Delivers(tok) THEN Put(delivered, tok, out.resp)
                       ELSE delivered
       /\ UNCHANGED <<gen_vars, external_requests_to_cancel,
                      external_requests_queue_data, external_requests_queue,
                      int_vars, ctl_vars, thr_vars, now, issued, cancel_calls,
                      shown, early_cancel, marks, start_result>>

\* no worker is inside _process_iteration
BetweenIterations ==
    \A w \in Threads :
        wpc[w] \in {"unborn", "spawned", "initialize", "post_init", "while",
                    "shutdown", "dead"}

\* cancel_request (lines 442-443)
cancel_request(tok) ==
    /\ external_requests_to_cancel' = Append(external_requests_to_cancel, tok)
    /\ marks' = marks + 1
    /\ early_cancel' = IF tok \in Range(external_requests_queue) /\ BetweenIterations
                       THEN early_cancel \cup {tok} ELSE early_cancel
    /\ UNCHANGED <<gen_vars, external_requests_queue_data, external_requests_queue,
                   external_responses, external_request_response_previous_action,
                   int_vars, ctl_vars, thr_vars, now, issued, delivered,
                   cancel_calls, shown, start_result>>

\* cleanup_old_responses (lines 414-423).  The loop walks a set of the keys
\* of __external_responses in no fixed order; line 419 raises KeyError at a
\* key that has no lifecycle entry, after the keys visited before it were
\* cleaned up.
Expired(cleanup_time) ==
    {k \in DOMAIN external_responses \cap
           DOMAIN external_request_response_previous_action :
        now - external_request_response_previous_action[k] > cleanup_time}
Unstamped == DOMAIN external_responses \
                 DOMAIN external_request_response_previous_action
CleanedSets(cleanup_time) ==
    IF Unstamped = {} THEN {Expired(cleanup_time)}
    ELSE SUBSET Expired(cleanup_time)
Cleaned(gone) ==
    /\ external_responses' = [k \in DOMAIN external_responses \ gone |->
                                  external_responses[k]]
    /\ external_request_response_previous_action' =
           [k \in DOMAIN external_request_response_previous_action \ gone |->
                external_request_response_previous_action[k]]

cleanup_old_responses(cleanup_time) ==
    /\ \E gone \in CleanedSets(cleanup_time) : Cleaned(gone)
    /\ UNCHANGED <<gen_vars, external_requests_to_cancel,
                   external_requests_queue_data, external_requests_queue,
                   int_vars, ctl_vars, thr_vars, now, obs_vars, rt_vars>>

\* the clock advances
Tick ==
    /\ now < MaxTime
    /\ now' = now + 1
    /\ UNCHANGED <<gen_vars, ext_vars, int_vars, ctl_vars, thr_vars, obs_vars,
                   rt_vars>>

\* ------------------------------------------------------- the worker thread
Goto(w, label) == wpc' = [wpc EXCEPT ![w] = label]

\* executor_thread_runner: `with init_complete_lock:` is entered (line 452)
runner_enter(w) ==
    /\ wpc[w] = "spawned"
    /\ Goto(w, "initialize")
    /\ UNCHANGED <<gen_vars, ext_vars, int_vars, ctl_vars, wlocal, cpc, now,
                   obs_vars, rt_vars>>

\* the user's initialize() returns success; the lock is released (line 453)
initialize(w, success) ==
    /\ wpc[w] = "initialize"
    /\ wlocal' = [wlocal EXCEPT ![w].success = success]
    /\ Goto(w, "post_init")
    /\ UNCHANGED <<gen_vars, ext_vars, int_vars, ctl_vars, cpc, now, obs_vars,
                   rt_vars>>

\* variant of executor_thread_runner without the `finally` of line 467: an
\* exception of initialize() ends the thread
initialize_ends_thread(w) ==
    /\ wpc[w] = "initialize"
    /\ Goto(w, "dead")
    /\ UNCHANGED <<gen_vars, ext_vars, int_vars, ctl_vars, wlocal, cpc, now,
                   obs_vars, rt_vars>>

\* the user's initialize() raises: the lock is released and the `try` of
\* line 450 is left for its `finally` (line 467); running is not touched
initialize_raises(w) ==
    /\ wpc[w] = "initialize"
    /\ Goto(w, "shutdown")
    /\ UNCHANGED <<gen_vars, ext_vars, int_vars, ctl_vars, wlocal, cpc, now,
                   obs_vars, rt_vars>>

\* lines 454-455
runner_post_init(w) ==
    /\ wpc[w] = "post_init"
    /\ running' = IF wlocal[w].success THEN running ELSE FALSE
    /\ Goto(w, "while")
    /\ UNCHANGED <<gen_vars, ext_vars, int_vars, thread, internal_iter_count,
                   wlocal, cpc, now, obs_vars, rt_vars>>

\* `while executor.running` (line 456) and the entry of _process_iteration
\* (line 108).  internal_iter_count is kept modulo CleanupPeriod, which is
\* all that line 115 reads.
runner_while(w) ==
    /\ wpc[w] = "while"
    /\ IF running
       THEN /\ internal_iter_count' = (internal_iter_count + 1) % CleanupPeriod
            /\ Goto(w, "x2i_external")
       ELSE /\ Goto(w, "shutdown")
            /\ UNCHANGED internal_iter_count
    /\ UNCHANGED <<gen_vars, ext_vars, int_vars, running, thread, wlocal, cpc,
                   now, obs_vars, rt_vars>>

\* variant of the first block without the clear() of line 144
move_external_to_internal_keeps_queue(w) ==
    /\ wpc[w] = "x2i_external"
    /\ wlocal' = [wlocal EXCEPT
           ![w].prev_external_requests = external_requests_queue,
           ![w].prev_external_data =
               [t \in Range(external_requests_queue) |->
                    external_requests_queue_data[t]]]
    /\ external_requests_queue_data' =
           [t \in DOMAIN external_requests_queue_data \
                      Range(external_requests_queue) |->
                external_requests_queue_data[t]]
    /\ Goto(w, "x2i_internal")
    /\ UNCHANGED <<gen_vars, external_requests_to_cancel, external_responses,
                   external_requests_queue,
                   external_request_response_previous_action, int_vars,
                   ctl_vars, cpc, now, obs_vars, rt_vars>>

\* variant of the first block that reads the request data without popping
\* it (line 146)
move_external_to_internal_keeps_data(w) ==
    /\ wpc[w] = "x2i_external"
    /\ wlocal' = [wlocal EXCEPT
           ![w].prev_external_requests = external_requests_queue,
           ![w].prev_external_data =
               [t \in Range(external_requests_queue) |->
                    external_requests_queue_data[t]]]
    /\ external_requests_queue' = << >>
    /\ Goto(w, "x2i_internal")
    /\ UNCHANGED <<gen_vars, external_requests_to_cancel, external_responses,
                   external_requests_queue_data,
                   external_request_response_previous_action, int_vars,
                   ctl_vars, cpc, now, obs_vars, rt_vars>>

\* __move_external_to_internal, first block (lines 142-146)
move_external_to_internal_copy(w) ==
    /\ wpc[w] = "x2i_external"
    /\ wlocal' = [wlocal EXCEPT
           ![w].prev_external_requests = external_requests_queue,
           ![w].prev_external_data =
               [t \in Range(external_requests_queue) |->
                    external_requests_queue_data[t]]]
    /\ external_requests_queue' = << >>
    /\ external_requests_queue_data' =
           [t \in DOMAIN external_requests_queue_data \
                      Range(external_requests_queue) |->
                external_requests_queue_data[t]]
    /\ Goto(w, "x2i_internal")
    /\ UNCHANGED <<gen_vars, external_requests_to_cancel, external_responses,
                   external_request_response_previous_action, int_vars,
                   ctl_vars, cpc, now, obs_vars, rt_vars>>

\* the tokens of the batch appended to the internal queue (lines 150-151)
AppendBatch(queue, batch) == queue \o batch

\* __move_external_to_internal, second block (lines 149-152)
move_external_to_internal_add(w) ==
    /\ wpc[w] = "x2i_internal"
    /\ lock_internal = 0
    /\ internal_requests_queue' =
           AppendBatch(internal_requests_queue, wlocal[w].prev_external_requests)
    /\ internal_requests_data' =
           [t \in DOMAIN internal_requests_data \cup
                      DOMAIN wlocal[w].prev_external_data |->
                IF t \in DOMAIN wlocal[w].prev_external_data
                THEN wlocal[w].prev_external_data[t]
                ELSE internal_requests_data[t]]
    /\ wlocal' = [wlocal EXCEPT ![w].prev_external_requests = << >>,
                                ![w].prev_external_data = EmptyDict]
    /\ Goto(w, "i2x_internal")
    /\ UNCHANGED <<gen_vars, ext_vars, internal_responses, ctl_vars, cpc, now,
                   obs_vars, rt_vars>>

\* __move_internal_to_external, first block (lines 161-163)
move_internal_to_external_copy(w) ==
    /\ wpc[w] = "i2x_internal"
    /\ lock_internal = 0
    /\ wlocal' = [wlocal EXCEPT ![w].responses = internal_responses]
    /\ internal_responses' = EmptyDict
    /\ Goto(w, "i2x_external")
    /\ UNCHANGED <<gen_vars, ext_vars, internal_requests_queue,
                   internal_requests_data, ctl_vars, cpc, now, obs_vars,
                   rt_vars>>

\* __move_internal_to_external, second block (lines 165-171), then line 115
move_internal_to_external_add(w) ==
    /\ wpc[w] = "i2x_external"
    /\ external_responses' =
           [k \in DOMAIN external_responses \cup DOMAIN wlocal[w].responses |->
                IF k \in DOMAIN wlocal[w].responses
                THEN wlocal[w].responses[k] ELSE external_responses[k]]
    /\ external_request_response_previous_action' =
           [k \in DOMAIN external_request_response_previous_action \cup
                      DOMAIN wlocal[w].responses |->
                IF k \in DOMAIN wlocal[w].responses
                THEN now ELSE external_request_response_previous_action[k]]
    /\ wlocal' = [wlocal EXCEPT ![w].responses = EmptyDict]
    /\ Goto(w, IF internal_iter_count % CleanupPeriod = 0
               THEN "cleanup" ELSE "cancel_copy")
    /\ UNCHANGED <<gen_vars, external_requests_to_cancel,
                   external_requests_queue_data, external_requests_queue,
                   int_vars, ctl_vars, cpc, now, obs_vars, rt_vars>>

\* line 116: cleanup_old_responses() on the worker; a KeyError leaves
\* _process_iteration and is logged by the runner (lines 460-462)
iteration_cleanup(w) ==
    /\ wpc[w] = "cleanup"
    /\ \E gone \in CleanedSets(old_cleanup_time) : Cleaned(gone)
    /\ Goto(w, IF Unstamped = {} THEN "cancel_copy" ELSE "while")
    /\ UNCHANGED <<gen_vars, external_requests_to_cancel,
                   external_requests_queue_data, external_requests_queue,
                   int_vars, ctl_vars, wlocal, cpc, now, obs_vars, rt_vars>>

\* __handle_cancellations, first block (lines 179-184)
handle_cancellations_copy(w) ==
    /\ wpc[w] = "cancel_copy"
    /\ wlocal' = [wlocal EXCEPT ![w].to_cancel = external_requests_to_cancel]
    /\ external_requests_to_cancel' = << >>
    /\ Goto(w, IF external_requests_to_cancel = << >>
               THEN "handle" ELSE "cancel_internal")
    /\ UNCHANGED <<gen_vars, external_requests_queue_data,
                   external_requests_queue, external_responses,
                   external_request_response_previous_action, int_vars,
                   ctl_vars, cpc, now, obs_vars, rt_vars>>

\* the key under which line 195 stores the CancelledResponse of token:
\* `self.__internal_responses[response] = response`
InternalCancelKey(token) == ObjectKey(token)
\* the key under which line 206 stores it: `self.__external_responses[response]`
ExternalCancelKey(token) == ObjectKey(token)

Count(calls, token) == IF token \in DOMAIN calls THEN calls[token] ELSE 0

\* the loop of lines 187-195 over to_cancel; st = [queue, data, responses, calls]
RECURSIVE CancelInternal(_, _)
CancelInternal(to_cancel, st) ==
    IF to_cancel = << >> THEN st
    ELSE LET token == Head(to_cancel)
         IN IF token \in Range(st.queue)
            THEN CancelInternal(Tail(to_cancel),
                     [queue |-> Remove(st.queue, token),
                      data |-> Pop(st.data, token),
                      responses |->
                          Put(st.responses, InternalCancelKey(token),
                              set_static_state(CancelledResponse,
                                               st.data[token].static_state)),
                      calls |-> Put(st.calls, token, Count(st.calls, token) + 1)])
            ELSE CancelInternal(Tail(to_cancel), st)

\* __handle_cancellations, second block (lines 186-195)
handle_cancellations_internal(w) ==
    /\ wpc[w] = "cancel_internal"
    /\ lock_internal = 0
    /\ LET st == CancelInternal(wlocal[w].to_cancel,
                     [queue |-> internal_requests_queue,
                      data |-> internal_requests_data,
                      responses |-> internal_responses,
                      calls |-> cancel_calls])
       IN /\ internal_requests_queue' = st.queue
          /\ internal_requests_data' = st.data
          /\ internal_responses' = st.responses
          /\ cancel_calls' = st.calls
    /\ Goto(w, "cancel_external")
    /\ UNCHANGED <<gen_vars, ext_vars, ctl_vars, wlocal, cpc, now, issued,
                   delivered, shown, early_cancel, marks, start_result,
                   rt_vars>>

\* the tokens of to_cancel that the loop of lines 199-208 finds queued
QueuedToCancel(to_cancel) ==
    {i \in DOMAIN to_cancel : to_cancel[i] \in Range(external_requests_queue)}

\* variant of the third block that cancels every marked token, whether it is
\* still queued or has its response already (line 201 left out)
cancel_answered_tokens(w) ==
    /\ wpc[w] = "cancel_external"
    /\ external_responses' =
           [k \in DOMAIN external_responses |->
                IF k \in Range(wlocal[w].to_cancel)
                THEN set_static_state(CancelledResponse,
                                      external_responses[k].static_state)
                ELSE external_responses[k]]
    /\ Goto(w, "handle")
    /\ wlocal' = [wlocal EXCEPT ![w].to_cancel = << >>]
    /\ UNCHANGED <<gen_vars, external_requests_to_cancel,
                   external_requests_queue_data, external_requests_queue,
                   external_request_response_previous_action, int_vars,
                   ctl_vars, cpc, now, obs_vars, rt_vars>>

\* __handle_cancellations, third block (lines 197-208).  For the first token
\* found in the external queue the response is stored (line 206) and line 208
\* raises AttributeError (`response.token`): the iteration is left, the
\* runner logs the error (lines 460-462).
handle_cancellations_external(w) ==
    /\ wpc[w] = "cancel_external"
    /\ LET hits == QueuedToCancel(wlocal[w].to_cancel)
       IN IF hits = {}
          THEN /\ Goto(w, "handle")
               /\ UNCHANGED <<external_requests_queue, external_requests_queue_data,
                              external_responses, rt_vars>>
          ELSE LET token == wlocal[w].to_cancel[CHOOSE i \in hits :
                                                   \A j \in hits : i <= j]
               IN /\ external_requests_queue' = Remove(external_requests_queue, token)
                  /\ external_requests_queue_data' =
                         Pop(external_requests_queue_data, token)
                  /\ external_responses' =
                         Put(external_responses, ExternalCancelKey(token),
                             set_static_state(CancelledResponse,
                                 external_requests_queue_data[token].static_state))
                  /\ Goto(w, "while")
    /\ wlocal' = [wlocal EXCEPT ![w].to_cancel = << >>]
    /\ UNCHANGED <<gen_vars, external_requests_to_cancel,
                   external_request_response_previous_action, int_vars,
                   ctl_vars, cpc, now, obs_vars, rt_vars>>

\* lines 224-225 and 238-239: accept and reject raise ValueError for a
\* token that is not in the internal queue
AcceptRaises(st, token) == token \notin Range(st.queue)

\* variant of accept that stores the response before it looks at the queue
AcceptOverwrites(st, token, response) ==
    IF AcceptRaises(st, token)
    THEN [st EXCEPT !.responses = Put(@, token, response)]
    ELSE [queue |-> Remove(st.queue, token),
          data |-> Pop(st.data, token),
          responses |-> Put(st.responses, token,
                            set_static_state(response, st.data[token].static_state))]

\* accept (lines 224-231) and reject (lines 238-245); st = [queue, data,
\* responses]; a call that raises leaves them as they are
accept(st, token, response) ==
    IF AcceptRaises(st, token) THEN st
    ELSE [queue |-> Remove(st.queue, token),
          data |-> Pop(st.data, token),
          responses |-> Put(st.responses, token,
                            set_static_state(response, st.data[token].static_state))]
reject(st, token, error_reason) ==
    IF AcceptRaises(st, token) THEN st
    ELSE [queue |-> Remove(st.queue, token),
          data |-> Pop(st.data, token),
          responses |-> Put(st.responses, token,
                            set_static_state(ErrorResponse(error_reason),
                                             st.data[token].static_state))]

\* what the implementation does with each token of the snapshot
Decision(act, response) == [act |-> act, response |-> response]
Decisions == {Decision("skip", NoResponse), Decision("reject", NoResponse)}
                 \cup {Decision("accept", r) : r \in UserResponses}
\* variant of the handler loop that walks the real queue instead of the
\* copy of line 124: removing the token at the iterator's position makes
\* the iteration pass over the token that follows it
RECURSIVE HandleAllLive(_, _, _)
HandleAllLive(snapshot, decide, st) ==
    IF snapshot = << >> THEN st
    ELSE LET token == Head(snapshot)
             next == IF decide[token].act = "skip" THEN st
                     ELSE IF decide[token].act = "reject"
                     THEN reject(st, token, RejectMsg)
                     ELSE accept(st, token, decide[token].response)
             rest == IF decide[token].act = "skip" \/ Len(snapshot) = 1
                     THEN Tail(snapshot) ELSE Tail(Tail(snapshot))
         IN HandleAllLive(rest, decide, next)

\* an implementation that answers a token a second time: reject after
\* accept, accept after reject
Misuses == {Decision("accept_reject", r) : r \in UserResponses}
               \cup {Decision("reject_accept", r) : r \in UserResponses}
RECURSIVE HandleAll(_, _, _)
HandleAll(snapshot, decide, st) ==
    IF snapshot = << >> THEN st
    ELSE LET token == Head(snapshot)
             next == IF decide[token].act = "skip" THEN st
                     ELSE IF decide[token].act = "reject"
                     THEN reject(st, token, RejectMsg)
                     ELSE IF decide[token].act = "accept_reject"
                     THEN reject(accept(st, token, decide[token].response),
                                 token, RejectMsg)
                     ELSE IF decide[token].act = "reject_accept"
                     THEN accept(reject(st, token, RejectMsg),
                                 token, decide[token].response)
                     ELSE accept(st, token, decide[token].response)
         IN HandleAll(Tail(snapshot), decide, next)

\* variant of the last block in which accept and reject write to the
\* external store
handle_all_requests_publishing(w, decide, raises) ==
    /\ wpc[w] = "handling"
    /\ shown' = shown \cup Range(internal_requests_queue)
    /\ LET st == HandleAll(internal_requests_queue, decide,
                     [queue |-> internal_requests_queue,
                      data |-> internal_requests_data,
                      responses |-> external_responses])
       IN /\ internal_requests_queue' = st.queue
          /\ internal_requests_data' = st.data
          /\ external_responses' = st.responses
    /\ Goto(w, IF raises THEN "fatal_stop" ELSE "while")
    /\ UNCHANGED <<gen_vars, external_requests_to_cancel,
                   external_requests_queue_data, external_requests_queue,
                   external_request_response_previous_action,
                   internal_responses, ctl_vars, wlocal, cpc, now, issued,
                   delivered, cancel_calls, early_cancel, marks, start_result,
                   rt_vars>>

\* line 122: `with self.__lock_internal` is entered
handle_enter(w) ==
    /\ wpc[w] = "handle"
    /\ lock_internal = 0
    /\ Goto(w, "handling")
    /\ UNCHANGED <<gen_vars, ext_vars, int_vars, ctl_vars, wlocal, cpc, now,
                   obs_vars, rt_vars>>

\* _process_iteration, last block (lines 123-131): the snapshot is taken and
\* the user's _handle_all_requests runs under __lock_internal; it accepts,
\* rejects or leaves each token of the snapshot, and it may raise
handle_all_requests(w, decide, raises) ==
    /\ wpc[w] = "handling"
    /\ shown' = shown \cup Range(internal_requests_queue)
    /\ LET st == HandleAll(internal_requests_queue, decide,
                     [queue |-> internal_requests_queue,
                      data |-> internal_requests_data,
                      responses |-> internal_responses])
       IN /\ internal_requests_queue' = st.queue
          /\ internal_requests_data' = st.data
          /\ internal_responses' = st.responses
    /\ Goto(w, IF raises THEN "fatal_stop" ELSE "while")
    /\ UNCHANGED <<gen_vars, ext_vars, ctl_vars, wlocal, cpc, now, issued,
                   delivered, cancel_calls, early_cancel, marks, start_result,
                   rt_vars>>

\* line 131: self.stop(await_thread_stop=False) on the worker, inside the
\* `with self.__lock_internal` block; it waits for __status_lock
iteration_fatal_stop(w) ==
    /\ wpc[w] = "fatal_stop"
    /\ status_lock = "free"
    /\ running' = FALSE
    /\ Goto(w, "while")
    /\ UNCHANGED <<gen_vars, ext_vars, int_vars, thread, internal_iter_count,
                   wlocal, cpc, now, obs_vars, rt_vars>>

\* lines 467-472: the user's shutdown() runs, an Exception it raises is
\* logged (lines 470-472), and the thread ends
runner_shutdown(w) ==
    /\ wpc[w] = "shutdown"
    /\ wlocal' = [wlocal EXCEPT ![w].shutdowns = @ + 1]
    /\ Goto(w, "dead")
    /\ UNCHANGED <<gen_vars, ext_vars, int_vars, ctl_vars, cpc, now, obs_vars,
                   rt_vars>>

\* ------------------------------------------------------------ start / stop
\* the thread object a start call creates
NewThread == CHOOSE w \in Threads : wpc[w] = "unborn" /\
                 \A v \in Threads : wpc[v] = "unborn" => w <= v

\* start, up to the wait for initialization (lines 318-328); a call on a
\* running executor returns None at once (line 333)
start(c, wait_for_init_complete) ==
    /\ cpc[c] = "idle"
    /\ status_lock = "free"
    /\ IF running
       THEN UNCHANGED <<running, thread, wpc, cpc, rt_vars>>
       ELSE /\ \E w \in Threads : wpc[w] = "unborn"
            /\ running' = TRUE
            /\ thread' = NewThread
            /\ wpc' = [wpc EXCEPT ![NewThread] = "spawned"]
            /\ cpc' = [cpc EXCEPT ![c] = IF wait_for_init_complete
                                         THEN "start_wait" ELSE "idle"]
    /\ UNCHANGED <<gen_vars, ext_vars, int_vars, internal_iter_count, wlocal, now,
                   obs_vars, rt_vars>>

\* what start(wait_for_init_complete=True) returns (line 331)
StartResult == running

\* start: tmp_lock is acquired and released and the result is returned
\* (lines 329-331)
start_return(c) ==
    /\ cpc[c] = "start_wait"
    /\ init_complete_lock(thread) = 0
    /\ start_result' = Put(start_result, thread, StartResult)
    /\ cpc' = [cpc EXCEPT ![c] = "idle"]
    /\ UNCHANGED <<gen_vars, ext_vars, int_vars, ctl_vars, wpc, wlocal, now,
                   issued, delivered, cancel_calls, shown, early_cancel, marks,
                   rt_vars>>

\* stop, up to the join (lines 343-347)
stop(c, await_thread_stop) ==
    /\ cpc[c] = "idle"
    /\ status_lock = "free"
    /\ IF running
       THEN /\ running' = FALSE
            /\ cpc' = [cpc EXCEPT ![c] = IF await_thread_stop /\ thread # 0
                                         THEN "stop_join" ELSE "idle"]
       ELSE UNCHANGED <<running, cpc, rt_vars>>
    /\ UNCHANGED <<gen_vars, ext_vars, int_vars, thread, internal_iter_count, wpc,
                   wlocal, now, obs_vars, rt_vars>>

\* stop: self._thread.join() returns (lines 348-349)
stop_return(c) ==
    /\ cpc[c] = "stop_join"
    /\ wpc[thread] = "dead"
    /\ cpc' = [cpc EXCEPT ![c] = "idle"]
    /\ UNCHANGED <<gen_vars, ext_vars, int_vars, ctl_vars, wpc, wlocal, now,
                   obs_vars, rt_vars>>

\* ------------------------------------------------------------ specification
\* The requests the producers submit: the k-th request handed to
\* queue_request carries static_state k, so that no two requests carry the
\* same one and none carries the default None.
Requests == {AbstractRequest(Len(issued) + 1)}

\* time_override arguments: None (old_cleanup_time is used), and a negative
\* one, under which every stamped response counts as expired
Overrides == {old_cleanup_time, 0 - 1}

\* queue_request is called as long as it hands out at most MaxSubmits
\* tokens; calls that raise PoolFullException are not counted
MaySubmit ==
    \/ Len(issued) < MaxSubmits
    \/ PoolFull(external_request_response_previous_action)

\* calls made by producer threads (any thread but the worker)
Producer ==
    \/ \E x \in Requests : MaySubmit /\ queue_request(x)
          /\ UNCHANGED rt_vars
    \/ \E tok \in CallerTokens : poll_response(tok)
          /\ UNCHANGED rt_vars
    \/ \E tok \in CallerTokens : marks < MaxCancelMarks /\ cancel_request(tok)
          /\ UNCHANGED rt_vars
    \/ \E t \in Overrides : cleanup_old_responses(t)

\* executor_thread_runner up to the loop test; Inits holds the values the
\* user's initialize() may return
Runner(w, Inits) ==
    \/ runner_enter(w)
    \/ \E success \in Inits : initialize(w, success)
    \/ runner_post_init(w)
    \/ runner_while(w)

\* the transfers and the periodic cleanup of an iteration
Transfers(w) ==
    \/ move_external_to_internal_copy(w)
    \/ move_external_to_internal_add(w)
    \/ move_internal_to_external_copy(w)
    \/ move_internal_to_external_add(w)
    \/ iteration_cleanup(w)
    \/ handle_cancellations_copy(w)

\* the cancellation pass over a non-empty to_cancel
Cancellations(w) ==
    \/ handle_cancellations_internal(w)
    \/ handle_cancellations_external(w)

\* the user's _handle_all_requests deciding per token among Choices
Handler(w, Choices) ==
    \/ handle_enter(w)
    \/ \E decide \in [Range(internal_requests_queue) -> Choices] :
           handle_all_requests(w, decide, FALSE)

\* the user's _handle_all_requests raising after it handled some tokens
FatalHandler(w, Choices) ==
    \/ \E decide \in [Range(internal_requests_queue) -> Choices] :
           handle_all_requests(w, decide, TRUE)
    \/ iteration_fatal_stop(w)

\* the steps of worker thread w
Worker(w) ==
    \/ Runner(w, BOOLEAN)
    \/ initialize_raises(w)
    \/ runner_shutdown(w)
    \/ Transfers(w)
    \/ Cancellations(w)
    \/ Handler(w, Decisions)
    \/ FatalHandler(w, Decisions)

\* time.sleep(0.1) of start (line 328) is taken to be long enough for the
\* new thread to reach `with init_complete_lock` (line 452)
SleepSuffices == thread # 0 /\ wpc[thread] # "spawned"

\* start and stop calls of thread c; the executor is started once
Control(c) ==
    \/ \E wait \in BOOLEAN : thread = 0 /\ start(c, wait)
    \/ SleepSuffices /\ start_return(c)
    \/ \E await \in BOOLEAN : stop(c, await)
    \/ stop_return(c)

\* One executor, started once, its producers and its worker thread.
Next ==
    \/ Producer
    \/ \E w \in Threads : Worker(w)
    \/ \E c \in Callers : Control(c)

Spec == Init /\ [][Next]_vars

\* start and stop calls of thread c, restarts included
Restarts(c) ==
    \/ \E wait \in BOOLEAN : start(c, wait)
    \/ SleepSuffices /\ start_return(c)
    \/ \E await \in BOOLEAN : stop(c, await)
    \/ stop_return(c)

\* An executor that is stopped and started again while requests are queued;
\* the implementation leaves every request in the queue.
NextThreads ==
    \/ \E x \in Requests : MaySubmit /\ queue_request(x)
          /\ UNCHANGED rt_vars
    \/ \E w \in Threads : Runner(w, BOOLEAN)
    \/ \E w \in Threads : initialize_raises(w)
    \/ \E w \in Threads : runner_shutdown(w)
    \/ \E w \in Threads : Transfers(w)
    \/ \E w \in Threads : Handler(w, {Decision("skip", NoResponse)})
    \/ \E c \in Callers : Restarts(c)

SpecThreads == Init /\ [][NextThreads]_vars

\* A running executor whose implementation accepts or rejects every token
\* it is shown, under fair scheduling of the worker thread and of the
\* polling producers.
Cooperative == Decisions \ {Decision("skip", NoResponse)}

NextLive ==
    \/ \E x \in Requests : MaySubmit /\ queue_request(x)
          /\ UNCHANGED rt_vars
    \/ \E tok \in Range(issued) : poll_response(tok)
          /\ UNCHANGED rt_vars
    \/ \E tok \in Range(issued) : marks < MaxCancelMarks /\ cancel_request(tok)
          /\ UNCHANGED rt_vars
    \/ \E c \in Callers : thread = 0 /\ start(c, FALSE)
    \/ \E w \in Threads : Runner(w, {TRUE})
    \/ \E w \in Threads : Transfers(w)
    \/ \E w \in Threads : Cancellations(w)
    \/ \E w \in Threads : Handler(w, Cooperative)

Fairness ==
    /\ \A w \in Threads :
           WF_vars(Runner(w, {TRUE}) \/ Transfers(w) \/ Cancellations(w)
                       \/ Handler(w, Cooperative))
    /\ WF_vars(\E tok \in Range(issued) :
                   poll_response(tok) /\ UNCHANGED rt_vars)
    /\ WF_vars(\E c \in Callers : thread = 0 /\ start(c, FALSE))

SpecLive == Init /\ [][NextLive]_vars /\ Fairness

\* ------------------------------------------------------------- properties
\* the name the specification gives to the lifecycle map
external_lifecycle == external_request_response_previous_action

\* the places a response stored under token t can be: the internal store,
\* the copy a worker carries between the two stores, the external store
Stores ==
    {internal_responses, external_responses} \cup
        {wlocal[w].responses : w \in Threads}
HasResponse(t) == \E st \in Stores : t \in DOMAIN st
ResponseOf(t) == (CHOOSE st \in Stores : t \in DOMAIN st)[t]

\* what poll_response(t) would return in this state is not None
Answered(t) ==
    PollOutcome(t, external_responses, external_lifecycle).kind = "response"

\* C1: every token queue_request returned is eventually answered: from some
\* point on poll_response(token) returns a response, not None, whatever
\* queue_request, cancel_request and poll_response calls interleave, a
\* cancel_request(token) before the answer included.
C1_EveryTokenAnswered ==
    \A i \in 1..MaxSubmits :
        (Len(issued) >= i) ~> (Len(issued) >= i /\ Answered(issued[i]))

\* C2: a token cancelled while in the internal queue had
\* _handle_request_cancel called exactly once, and from the end of that
\* cancellation pass on a CancelledResponse is kept for the token (in the
\* internal store, on its way out, or in the external store) until
\* poll_response returns it or it is cleaned up.
C2_CancelAfterTransfer ==
    \A t \in DOMAIN cancel_calls :
        /\ cancel_calls[t] = 1
        /\ t \in DOMAIN delivered => is_cancelled(delivered[t])
        /\ t \notin DOMAIN delivered /\ t \in DOMAIN external_lifecycle
               => HasResponse(t) /\ is_cancelled(ResponseOf(t))

\* C3: a token cancelled while it waits in the external queue and no
\* iteration is in progress is in no snapshot passed to
\* _handle_all_requests, and poll_response eventually returns for it a
\* response with cancelled = True and error_msg "Response is cancelled!".
C3_CancelWhileQueued ==
    \A i \in 1..MaxSubmits :
        /\ [](Len(issued) >= i /\ issued[i] \in early_cancel
                  => issued[i] \notin shown)
        /\ (Len(issued) >= i /\ issued[i] \in early_cancel)
               ~> (/\ Len(issued) >= i
                   /\ issued[i] \in DOMAIN delivered
                   /\ delivered[issued[i]].cancelled
                   /\ delivered[issued[i]].error_msg = CancelledMsg)

\* a token that was accepted or rejected and not polled yet, and a token the
\* executor does not know
Completed(t) == t \in DOMAIN internal_responses \cup DOMAIN external_responses
Unknown(t) == t \notin DOMAIN external_lifecycle
CancellationPass(w) ==
    handle_cancellations_internal(w) \/ handle_cancellations_external(w)

\* C4: the cancellation pass over a mark for a completed or unknown token
\* changes no response of that token, calls _handle_request_cancel for it
\* not at all and raises nothing; and the response accept or reject stored
\* for a token is not a CancelledResponse, stays the same while it is
\* stored, and is the one poll_response returns.
C4_CancelAfterAccept ==
    [][/\ \A w \in Threads : CancellationPass(w) =>
              /\ \A t \in Range(wlocal[w].to_cancel) :
                     Completed(t) \/ Unknown(t) =>
                         /\ HasResponse(t)' = HasResponse(t)
                         /\ HasResponse(t) => ResponseOf(t)' = ResponseOf(t)
                         /\ Count(cancel_calls', t) = Count(cancel_calls, t)
              /\ (\A t \in Range(wlocal[w].to_cancel) :
                      Completed(t) \/ Unknown(t))
                     => wpc'[w] \in {"cancel_external", "handle"}
       /\ \A t \in Range(issued) :
              /\ (\E w \in Threads : wpc[w] = "handling") /\ ~HasResponse(t)
                     /\ HasResponse(t)'
                     => ~is_cancelled(ResponseOf(t)')
              /\ HasResponse(t) /\ HasResponse(t)'
                     => ResponseOf(t)' = ResponseOf(t)
              /\ t \notin DOMAIN delivered /\ t \in DOMAIN delivered'
                     => HasResponse(t) /\ delivered'[t] = ResponseOf(t)
      ]_vars

\* a cancellation pass has looked at a mark for a token whose response is
\* waiting in the external store
C4_Witness ==
    \E w \in Threads :
        /\ wpc[w] = "cancel_external"
        /\ \E t \in Range(wlocal[w].to_cancel) :
               /\ t \in DOMAIN external_responses
               /\ ~is_cancelled(external_responses[t])

\* C5: a token whose response poll_response returned is unknown afterwards:
\* it has neither a response nor a lifecycle entry, and poll_response
\* returns the invalid-token ErrorResponse for it.
C5_DeliveredOnce ==
    \A t \in DOMAIN delivered :
        /\ t \notin DOMAIN external_lifecycle
        /\ t \notin DOMAIN external_responses
        /\ LET out == PollOutcome(t, external_responses, external_lifecycle)
           IN /\ out.kind = "response"
              /\ out.resp = ErrorResponse(InvalidTokenMsg)

\* poll_response returned the response of a token
C5_Witness ==
    \E t \in DOMAIN delivered : is_successful_response(delivered[t])

\* C6: poll_response of a token that is known and has no response returns
\* None, poll_response of a token that is not known returns an
\* ErrorResponse, and neither changes any variable of the executor.
C6_PollWithoutResponse ==
    /\ [](\A tok \in CallerTokens :
              ~Delivers(tok) =>
                  LET out == PollOutcome(tok, external_responses,
                                         external_lifecycle)
                  IN IF tok \in DOMAIN external_lifecycle
                     THEN out.kind = "None"
                     ELSE /\ out.kind = "response"
                          /\ has_error(out.resp)
                          /\ ~is_cancelled(out.resp))
    /\ [][\A tok \in CallerTokens :
              poll_response(tok) /\ ~Delivers(tok) => UNCHANGED vars]_vars

\* a token is known and has no response yet, while another token is not
\* known any more
C6_Witness ==
    /\ \E tok \in Range(issued) :
           tok \in DOMAIN external_lifecycle \ DOMAIN external_responses
    /\ \E tok \in Range(issued) : tok \notin DOMAIN external_lifecycle

Position(t) == CHOOSE i \in DOMAIN issued : issued[i] = t
InIssueOrder(queue) ==
    \A i, j \in DOMAIN queue :
        i < j => Position(queue[i]) < Position(queue[j])

\* C8: the internal queue, and so every snapshot passed to
\* _handle_all_requests, holds its tokens in the order in which
\* queue_request handed them out.
C8_FifoDispatch == InIssueOrder(internal_requests_queue)

\* C9: the tokens queue_request handed out are pairwise distinct, and the
\* token it hands out next is not a key of the lifecycle map.
C9_TokenUniqueness ==
    /\ \A i, j \in DOMAIN issued : i # j => issued[i] # issued[j]
    /\ strtoken \notin DOMAIN external_lifecycle

\* two tokens were handed out, and the first one has been polled
C9_Witness ==
    /\ Len(issued) >= 2
    /\ issued[1] \in DOMAIN delivered

\* C10: when start(wait_for_init_complete=True) has returned, initialize()
\* of the thread it started has returned, and start returned the value
\* initialize() returned.
C10_StartReturnsInitResult ==
    \A w \in DOMAIN start_result :
        /\ wpc[w] \notin {"spawned", "initialize"}
        /\ start_result[w] = wlocal[w].success

\* a call stop(await_thread_stop=True) by thread c returns in this state:
\* at once because running is False (line 344), or out of join() (line 348)
StopReturns(c) ==
    \/ cpc[c] = "idle" /\ status_lock = "free" /\ ~running
    \/ cpc[c] = "stop_join" /\ wpc[thread] = "dead"

\* C11: whenever a call stop(await_thread_stop=True) returns, running is
\* False, the worker thread has terminated and the user's shutdown() has
\* completed, whatever stop calls were made before.
C11_StopJoinsWorker ==
    \A c \in Callers :
        StopReturns(c) =>
            /\ ~running
            /\ thread # 0 =>
                   wpc[thread] = "dead" /\ wlocal[thread].shutdowns = 1

\* thread c holds __status_lock inside stop() and waits in join() for the
\* worker thread, which waits inside its own stop() call (line 131) for
\* __status_lock: neither call returns, and no later start, stop or
\* is_running call gets the lock
StatusLockDeadlock(c) ==
    /\ status_lock = c
    /\ cpc[c] = "stop_join"
    /\ wpc[thread] = "fatal_stop"

\* C12: no call of stop, start or is_running waits forever for
\* __status_lock or for a thread that waits for it; in particular not
\* stop(await_thread_stop=True) of another thread while
\* _handle_all_requests raises on the worker.
C12_NoStatusLockDeadlock == \A c \in Callers : ~StatusLockDeadlock(c)

\* An executor whose _handle_all_requests may raise and which other threads
\* start once and stop, under fair scheduling of the worker thread and of
\* the threads waiting inside start and stop.
NextStop ==
    \/ \E c \in Callers : Control(c)
    \/ \E w \in Threads : Runner(w, BOOLEAN)
    \/ \E w \in Threads : runner_shutdown(w)
    \/ \E w \in Threads : Transfers(w)
    \/ \E w \in Threads : Handler(w, Decisions)
    \/ \E w \in Threads : FatalHandler(w, Decisions)

FairStop ==
    /\ \A w \in Threads :
           WF_vars(Runner(w, BOOLEAN) \/ runner_shutdown(w) \/ Transfers(w)
                       \/ Handler(w, Decisions) \/ FatalHandler(w, Decisions))
    /\ \A c \in Callers :
           WF_vars((SleepSuffices /\ start_return(c)) \/ stop_return(c))

SpecStop == Init /\ [][NextStop]_vars /\ FairStop

\* C13: when _handle_all_requests has raised on a worker thread, running
\* becomes False, the thread starts no further iteration, leaves its loop
\* and calls shutdown() exactly once; an exception raised by another step
\* of the iteration (cleanup, cancellation pass) leaves running as it is.
C13_FatalHandlerStops ==
    /\ \A w \in Threads :
           (wpc[w] = "fatal_stop")
               ~> (~running /\ wpc[w] = "dead" /\ wlocal[w].shutdowns = 1)
    /\ [][\A w \in Threads :
              /\ wpc[w] = "fatal_stop" /\ wpc'[w] # "fatal_stop" => ~running'
              /\ wpc[w] \in {"cleanup", "cancel_external"} /\ wpc'[w] = "while"
                     => running' = running]_vars

\* C14: every worker thread calls the user's shutdown() at most once, a
\* thread has ended exactly when it has called shutdown() once, and it ends
\* that way on every path out of executor_thread_runner: the loop left
\* after a stop or a fatal handler error, initialize() returning False,
\* initialize() raising.
C14_ShutdownOnce ==
    /\ [](\A w \in Threads :
              /\ wlocal[w].shutdowns <= 1
              /\ wpc[w] = "dead" <=> wlocal[w].shutdowns = 1)
    /\ [][\A w \in Threads :
              /\ wpc[w] = "initialize" /\ wpc'[w] # "initialize"
                     => wpc'[w] \in {"post_init", "shutdown"}
              /\ wpc[w] = "post_init" /\ ~wlocal[w].success
                     /\ wpc'[w] # "post_init" => ~running' /\ wpc'[w] = "while"
              /\ wpc[w] = "while" /\ ~running /\ wpc'[w] # "while"
                     => wpc'[w] = "shutdown"
              /\ wpc'[w] = "dead" /\ wpc[w] # "dead" => wpc[w] = "shutdown"
      ]_vars

\* a thread whose initialize() raised has ended, shutdown() called once
C14_Witness ==
    \E w \in Threads :
        wpc[w] = "dead" /\ running /\ wlocal[w].shutdowns = 1

\* thread w is inside _process_iteration
InIteration(w) ==
    wpc[w] \in {"x2i_external", "x2i_internal", "i2x_internal", "i2x_external",
                "cleanup", "cancel_copy", "cancel_internal", "cancel_external",
                "handle", "handling", "fatal_stop"}

\* C15: a worker thread whose initialize() returned False sets running to
\* False, executes no iteration (no transfer, no cancellation pass, no
\* _handle_all_requests call) and goes on to shutdown(), with running still
\* False when it tests its loop condition.
C15_InitFalseShutsDown ==
    /\ [](\A w \in Threads : InIteration(w) => wlocal[w].success)
    /\ [][\A w \in Threads :
              /\ wpc[w] = "post_init" /\ wpc'[w] # "post_init"
                     /\ ~wlocal[w].success => ~running'
              /\ wpc[w] = "while" /\ wpc'[w] # "while" /\ ~wlocal[w].success
                     => ~running /\ wpc'[w] = "shutdown"]_vars

\* An executor with one request that is cancelled, stopped and started
\* again while its previous worker thread is still alive: two worker
\* threads compete for __lock_internal.
NextLocks ==
    \/ \E x \in Requests : Len(issued) < MaxRaceSubmits /\ queue_request(x)
          /\ UNCHANGED rt_vars
    \/ \E tok \in Range(issued) : marks < MaxCancelMarks /\ cancel_request(tok)
          /\ UNCHANGED rt_vars
    \/ \E w \in Threads : Runner(w, {TRUE})
    \/ \E w \in Threads : runner_shutdown(w)
    \/ \E w \in Threads : Transfers(w)
    \/ \E w \in Threads : Cancellations(w)
    \/ \E w \in Threads : Handler(w, {Decision("skip", NoResponse)})
    \/ \E c \in Callers : Restarts(c)

SpecLocks == Init /\ [][NextLocks]_vars

\* thread w is inside the user's _handle_all_requests
InHandler(w) == wpc[w] = "handling"

\* C16: _handle_all_requests and _handle_request_cancel run on the
\* executor's worker thread only (one and the same thread, self._thread),
\* no two threads are inside _handle_all_requests at once, and the block
\* that calls _handle_request_cancel (lines 186-195) runs only while no
\* thread is inside _handle_all_requests.
C16_HandlersOnWorkerThread ==
    /\ [](\A w, v \in Threads :
              /\ InHandler(w) => w = thread
              /\ InHandler(w) /\ InHandler(v) => w = v)
    /\ [][\A w \in Threads :
              handle_cancellations_internal(w)
                  => w = thread /\ \A v \in Threads : ~InHandler(v)]_vars

\* token t has its response in the internal store or in the copy a worker
\* carries to the external store: accept or reject was called for it and
\* the internal-to-external transfer is not completed
AwaitsTransfer(t) ==
    \/ t \in DOMAIN internal_responses
    \/ \E w \in Threads : t \in DOMAIN wlocal[w].responses

\* C17: a response is stored for a token by accept or reject inside
\* _handle_all_requests, reaches the external store only by the second
\* block of __move_internal_to_external, and is returned by poll_response
\* only from there; between accept/reject and the end of that transfer
\* poll_response(token) returns None.
C17_ResponseVisibility ==
    /\ [](\A t \in Range(issued) :
              AwaitsTransfer(t) =>
                  PollOutcome(t, external_responses,
                              external_lifecycle).kind = "None")
    /\ [][\A t \in Range(issued) :
              /\ t \notin DOMAIN internal_responses
                     /\ t \in DOMAIN internal_responses'
                     => /\ \E w \in Threads : InHandler(w)
                        /\ t \in Range(internal_requests_queue)
              /\ \A w \in Threads :
                     t \notin DOMAIN wlocal[w].responses
                         /\ t \in DOMAIN wlocal'[w].responses
                         => /\ move_internal_to_external_copy(w)
                            /\ t \in DOMAIN internal_responses
              /\ t \notin DOMAIN external_responses
                     /\ t \in DOMAIN external_responses'
                     => \E w \in Threads :
                            /\ move_internal_to_external_add(w)
                            /\ t \in DOMAIN wlocal[w].responses
              /\ t \notin DOMAIN delivered /\ t \in DOMAIN delivered'
                     => t \in DOMAIN external_responses
                            /\ ~AwaitsTransfer(t)]_vars

\* accept or reject was called for a token and the transfer of its
\* response is under way
C17_Witness ==
    \E t \in Range(issued), w \in Threads :
        /\ t \in DOMAIN wlocal[w].responses
        /\ wpc[w] = "i2x_external"

\* the static_state of the request that queue_request answered with token t
\* (the k-th request submitted carries static_state k)
SubmittedStaticState(t) == Position(t)

\* C18: every response the executor holds or poll_response has returned is
\* the response of a token queue_request handed out, kept under that token,
\* and carries the static_state of the request submitted for it, whether
\* it was built by accept, by reject or by a cancellation.
C18_StaticStateRoundTrip ==
    \A st \in Stores \cup {delivered} :
        \A k \in DOMAIN st :
            /\ k \in Range(issued)
            /\ st[k].static_state = SubmittedStaticState(k)


\* the predicates of AbstractResponse that hold of a response
Predicates(response) ==
    {p \in {"successful", "error", "cancelled"} :
        \/ p = "successful" /\ is_successful_response(response)
        \/ p = "error" /\ has_error(response)
        \/ p = "cancelled" /\ is_cancelled(response)}

\* the responses the executor holds for a later poll_response, or has
\* returned from one
HeldResponses ==
    UNION {{st[k] : k \in DOMAIN st} : st \in Stores \cup {delivered}}
\* the responses poll_response returns in this state, the ErrorResponse for
\* an unknown token included
PolledResponses ==
    {PollOutcome(t, external_responses, external_lifecycle).resp :
        t \in {u \in CallerTokens : Answered(u)}}

\* C19 (as stated): of every response poll_response returns, and of every
\* response built by ErrorResponse, CancelledResponse, reject or passed to
\* accept, exactly one of is_successful_response, has_error and
\* is_cancelled holds.
C19_ExactlyOnePredicate ==
    \A r \in HeldResponses \cup PolledResponses :
        Cardinality(Predicates(r)) = 1

\* C19 (amended): at least one of the three predicates holds of every such
\* response and is_successful_response excludes the other two, but has_error
\* and is_cancelled hold together of a CancelledResponse; a response built
\* by ErrorResponse or reject has has_error alone, an accepted one is
\* successful alone.
C19_PredicatesOfResponses ==
    /\ \A r \in HeldResponses \cup PolledResponses :
          Predicates(r) \in {{"successful"}, {"error"}, {"cancelled"},
                             {"error", "cancelled"}}
    /\ \A st \in Stores \cup {delivered} : \A k \in DOMAIN st :
          /\ st[k].error_msg = CancelledMsg <=>
                 Predicates(st[k]) = {"error", "cancelled"}
          /\ st[k].error_msg = RejectMsg => Predicates(st[k]) = {"error"}
          /\ st[k].error_msg = NoneMsg => Predicates(st[k]) = {"successful"}
    /\ \A t \in CallerTokens :
          t \notin DOMAIN external_lifecycle =>
              Predicates(PollOutcome(t, external_responses,
                                     external_lifecycle).resp) = {"error"}
\* a CancelledResponse, a rejected and an accepted response are held or
\* have been returned
C19_Witness ==
    /\ \E r \in HeldResponses : Predicates(r) = {"error", "cancelled"}
    /\ \E r \in HeldResponses \cup PolledResponses : Predicates(r) = {"error"}
    /\ \E t \in DOMAIN delivered : Predicates(delivered[t]) = {"successful"}


\* cleanup_old_responses raises KeyError at line 419 in this state: a key of
\* __external_responses has no lifecycle entry
CleanupRaises == Unstamped # {}

\* C20: cleanup_old_responses, called in any reachable state, completes
\* without raising, and removes exactly the tokens that have a response in
\* external_responses and a lifecycle timestamp older than old_cleanup_time
\* (or the override), response and lifecycle entry both, so that
\* poll_response no longer knows them; tokens without a response and
\* responses younger than that are left as they were.
C20_CleanupRemovesExpired ==
    /\ [](~CleanupRaises)
    /\ [][\A t \in Overrides : cleanup_old_responses(t) =>
             /\ DOMAIN external_responses' =
                    DOMAIN external_responses \ Expired(t)
             /\ DOMAIN external_lifecycle' =
                    DOMAIN external_lifecycle \ Expired(t)
             /\ \A k \in DOMAIN external_responses' :
                    external_responses'[k] = external_responses[k]
             /\ \A k \in DOMAIN external_lifecycle' :
                    external_lifecycle'[k] = external_lifecycle[k]]_vars


\* ------------------------------------- SingleThreadExecutorRouterWrapper
\* Python values passed as `value`: the class of the object and its items,
\* each item with its type
Item(type, v) == [type |-> type, v |-> v]
TupleValue(items) == [cls |-> "tuple", items |-> items]
ListValue(items) == [cls |-> "list", items |-> items]
OtherValue == [cls |-> "str", items |-> << >>]
\* isinstance(v, (str, int, float)), lines 105, 151, 197
IsStrIntFloat(item) == item.type \in {"str", "int", "float"}
\* executor_tag=None
NoTag == "<None>"

\* is_single_executor (line 63)
is_single_executor == executor_pool.kind = "executor"
\* a router object exists
RouterBuilt == executor_pool.kind \in {"executor", "dict"}

\* __init__ (lines 31-57): the exception it raises, "" for none.  In the
\* loop of line 41 hashlib.sha256(k) is called on the str key k (line 42),
\* which raises TypeError (strings must be encoded before hashing), so the
\* loop body never completes a first pass.
RouterInitRaises(pool) ==
    IF pool.kind = "executor" THEN ""
    ELSE IF pool.kind # "dict" THEN "ValueError"
    ELSE IF pool.tags # {} THEN "TypeError"
    ELSE ""

router_init(pool) ==
    /\ executor_pool = NoPool
    /\ IF RouterInitRaises(pool) = ""
       THEN /\ executor_pool' = pool
            /\ hashlen' = 0
            /\ exec_hash_to_exec' = EmptyDict
            /\ exec_to_exec_hash' = EmptyDict
            /\ registered_processors' = EmptyDict
            /\ rp_length' = 0
            /\ registered_processors_to_exec' = EmptyDict
            /\ UNCHANGED <<routed, post_calls, returned>>
       ELSE UNCHANGED rt_vars
    /\ UNCHANGED <<gen_vars, ext_vars, int_vars, ctl_vars, thr_vars, now,
                   obs_vars>>

\* variant of register_processor_pair without the test of line 103 against
\* the recorded arity
RegisterAnyLength(value, executor_tag) ==
    IF value.cls # "tuple" THEN "ValueError: Value must be a tuple!"
    ELSE IF Len(value.items) = 0
    THEN "ValueError: Length must match the prior lengths!"
    ELSE IF \E i \in DOMAIN value.items : ~IsStrIntFloat(value.items[i])
    THEN "ValueError: The value must be a list of str int float."
    ELSE IF value.items \in DOMAIN registered_processors
    THEN "ValueError: Cannot have repeated values."
    ELSE IF ~is_single_executor /\ executor_tag = NoTag
    THEN "ValueError: the executor tag must be given"
    ELSE IF ~is_single_executor /\ executor_tag \notin executor_pool.tags
    THEN "ValueError: Invalid executor tag!"
    ELSE ""

\* register_processor_pair (lines 101-113): the exception it raises, "" for
\* none
RegisterRaises(value, executor_tag) ==
    IF value.cls # "tuple" THEN "ValueError: Value must be a tuple!"
    ELSE IF Len(value.items) = 0
            \/ (rp_length # 0 /\ Len(value.items) # rp_length)
    THEN "ValueError: Length must match the prior lengths!"
    ELSE IF \E i \in DOMAIN value.items : ~IsStrIntFloat(value.items[i])
    THEN "ValueError: The value must be a list of str int float."
    ELSE IF value.items \in DOMAIN registered_processors
    THEN "ValueError: Cannot have repeated values."
    ELSE IF ~is_single_executor /\ executor_tag = NoTag
    THEN "ValueError: the executor tag must be given"
    ELSE IF ~is_single_executor /\ executor_tag \notin executor_pool.tags
    THEN "ValueError: Invalid executor tag!"
    ELSE ""

\* register_processor_pair (lines 101-117)
register_processor_pair(value, preprocess_callback, postprocess_callback, executor_tag) ==
    /\ RouterBuilt
    /\ IF RegisterRaises(value, executor_tag) = ""
       THEN /\ registered_processors_to_exec' =
                   IF is_single_executor THEN registered_processors_to_exec
                   ELSE Put(registered_processors_to_exec, value.items,
                            executor_tag)
            /\ rp_length' = Len(value.items)
            /\ registered_processors' =
                   Put(registered_processors, value.items,
                       <<preprocess_callback, postprocess_callback>>)
       ELSE UNCHANGED <<registered_processors_to_exec, rp_length,
                        registered_processors>>
    /\ UNCHANGED <<gen_vars, ext_vars, int_vars, ctl_vars, thr_vars, now,
                   obs_vars, executor_pool, hashlen, exec_hash_to_exec,
                   exec_to_exec_hash, routed, post_calls, returned>>


\* queue_request and queue_request_suppress_exc, the tests of `value`
\* (lines 145-152, 191-198): the exception raised, "" for none
ValueRaises(value) ==
    IF value.cls \notin {"list", "tuple"}
    THEN "ValueError: Value must be a list or tuple!"
    ELSE IF Len(value.items) = 0
            \/ (rp_length # 0 /\ Len(value.items) # rp_length)
    THEN "ValueError: Length must match the prior lengths!"
    ELSE IF \E i \in DOMAIN value.items : ~IsStrIntFloat(value.items[i])
    THEN "ValueError: The value must be a list of str int float."
    ELSE ""

\* the request handed to the executor (lines 160-161, 207-210): whatever
\* static_state the preprocessor's request carried is overwritten
RoutedState(static_state, value) ==
    [static_state |-> static_state, vtuple |-> value.items]
RoutedRequest(static_state, value) ==
    AbstractRequest(RoutedState(static_state, value))

\* the token the router returns for the executor's token pretok (lines
\* 164-170): in pool mode the hash of the executor's tag comes first
RouterToken(value, pretok) ==
    IF is_single_executor THEN pretok
    ELSE <<exec_to_exec_hash[registered_processors_to_exec[value.items]],
           pretok>>

\* queue_request (lines 145-170): the exception it raises ("" for none) and
\* the token it returns; pre_raises tells whether the preprocessor raises on
\* the given request_kwargs
RouterQueueOutcome(value, static_state, pre_raises) ==
    LET out == QueueOutcome(RoutedRequest(static_state, value))
    IN IF ValueRaises(value) # ""
       THEN [raises |-> ValueRaises(value), token |-> 0, calls |-> FALSE]
       ELSE IF value.items \notin DOMAIN registered_processors
       THEN [raises |-> "NotImplementedError", token |-> 0, calls |-> FALSE]
       ELSE IF pre_raises
       THEN [raises |-> "PreprocessError", token |-> 0, calls |-> FALSE]
       ELSE IF out.raises
       THEN [raises |-> "PoolFullException", token |-> 0, calls |-> TRUE]
       ELSE [raises |-> "", token |-> RouterToken(value, out.token),
             calls |-> TRUE]

\* the call of the executor's queue_request made by the router, or no call
RouterQueues(value, static_state, out) ==
    /\ IF out.calls
       THEN /\ queue_request(RoutedRequest(static_state, value))
            /\ routed' = IF out.raises = ""
                         THEN Put(routed, out.token,
                                  RoutedState(static_state, value))
                         ELSE routed
       ELSE UNCHANGED <<gen_vars, ext_vars, int_vars, ctl_vars, thr_vars, now,
                        obs_vars, routed>>
    /\ UNCHANGED <<executor_pool, hashlen, exec_hash_to_exec,
                   exec_to_exec_hash, registered_processors, rp_length,
                   registered_processors_to_exec, post_calls, returned>>

router_queue_request(value, static_state, pre_raises) ==
    /\ RouterBuilt
    /\ RouterQueues(value, static_state,
                    RouterQueueOutcome(value, static_state, pre_raises))

\* variant of queue_request_suppress_exc without the `except
\* PoolFullException` of line 221
SuppressWithoutExcept(value, static_state, pre_raises) ==
    LET out == RouterQueueOutcome(value, static_state, pre_raises)
    IN IF out.raises = ""
       THEN [raises |-> "", ret |-> <<out.token, TRUE>>]
       ELSE IF out.raises = "NotImplementedError"
       THEN [raises |-> "", ret |-> <<"Not Implemented Yet.", FALSE>>]
       ELSE IF out.raises = "PreprocessError"
       THEN [raises |-> "",
             ret |-> <<"Internal error when preprocessing the request.",
                       FALSE>>]
       ELSE [raises |-> out.raises, ret |-> <<"", FALSE>>]

\* queue_request_suppress_exc (lines 191-223): the exception it raises and
\* the pair it returns
SuppressOutcome(value, static_state, pre_raises) ==
    LET out == RouterQueueOutcome(value, static_state, pre_raises)
    IN IF out.raises = ""
       THEN [raises |-> "", ret |-> <<out.token, TRUE>>]
       ELSE IF out.raises = "NotImplementedError"
       THEN [raises |-> "", ret |-> <<"Not Implemented Yet.", FALSE>>]
       ELSE IF out.raises = "PreprocessError"
       THEN [raises |-> "",
             ret |-> <<"Internal error when preprocessing the request.",
                       FALSE>>]
       ELSE IF out.raises = "PoolFullException"
       THEN [raises |-> "",
             ret |-> <<"The execution pool is full. Please wait.", FALSE>>]
       ELSE [raises |-> out.raises, ret |-> <<"", FALSE>>]

queue_request_suppress_exc(value, static_state, pre_raises) ==
    /\ RouterBuilt
    /\ RouterQueues(value, static_state,
                    RouterQueueOutcome(value, static_state, pre_raises))


\* postprocess callbacks: a callback is written for the value it is named
\* after, and either leaves the response as it is or calls
\* response.errorify(PostMsg) (request_and_response.py lines 61-66)
PostMsg == "postprocessing failed"
errorify(response, error_msg) == [response EXCEPT !.error_msg = error_msg]
Callback(name, errorifies) == [name |-> name, errorifies |-> errorifies]
Postprocess(fn, response, static_state) ==
    IF fn.errorifies THEN errorify(response, PostMsg) ELSE response

\* the router's poll_response and cancel_request in pool mode (lines 248,
\* 284): `self._hashlen >= token` compares an int, or None when the pool is
\* empty, with a str, which raises TypeError
SplitRaises == IF is_single_executor THEN "" ELSE "TypeError"

\* variant of line 267 that takes the first callback of the pair
WrongCallbackFor(value) == registered_processors[value][1]

\* line 267: the postprocess callback registered under value
PostprocessorFor(value) == registered_processors[value][2]

\* poll_response (lines 255-271): what it returns, and the postprocessor
\* calls it makes, each with the callback and the static_state passed
RouterPollOutcome(token) ==
    LET out == PollOutcome(token, external_responses,
                           external_request_response_previous_action)
    IN IF out.kind = "None"
       THEN [kind |-> "None", resp |-> NoResponse, calls |-> << >>]
       ELSE IF has_error(out.resp)
       THEN [kind |-> "response", resp |-> out.resp, calls |-> << >>]
       ELSE LET static_state == out.resp.static_state.static_state
                value == out.resp.static_state.vtuple
                postprocess_fn == PostprocessorFor(value)
            IN [kind |-> "response",
                resp |-> Postprocess(postprocess_fn, out.resp, static_state),
                calls |-> <<[fn |-> postprocess_fn,
                             static_state |-> static_state]>>]

CallsFor(token) ==
    IF token \in DOMAIN post_calls THEN post_calls[token] ELSE << >>

router_poll_response(token) ==
    /\ RouterBuilt
    /\ IF SplitRaises = ""
       THEN LET out == RouterPollOutcome(token)
            IN /\ poll_response(token)
               /\ post_calls' = IF out.calls = << >> THEN post_calls
                                ELSE Put(post_calls, token,
                                         CallsFor(token) \o out.calls)
               /\ returned' = IF Delivers(token)
                              THEN Put(returned, token, out.resp)
                              ELSE returned
       ELSE UNCHANGED <<gen_vars, ext_vars, int_vars, ctl_vars, thr_vars, now,
                        obs_vars, post_calls, returned>>
    /\ UNCHANGED <<executor_pool, hashlen, exec_hash_to_exec,
                   exec_to_exec_hash, registered_processors, rp_length,
                   registered_processors_to_exec, routed>>

\* cancel_request (lines 281-292)
router_cancel_request(token) ==
    /\ RouterBuilt
    /\ IF SplitRaises = ""
       THEN cancel_request(token)
       ELSE UNCHANGED <<gen_vars, ext_vars, int_vars, ctl_vars, thr_vars, now,
                        obs_vars>>
    /\ UNCHANGED rt_vars

\* ---------------------------------------------------- router specification
\* arguments of the constructor
RouterPools == {SingleExecutor, DictPool({}), DictPool({"gpu"}), OtherPool}
\* arguments of register_processor_pair and queue_request
RouterValues ==
    {TupleValue(<<Item("str", "a")>>), TupleValue(<<Item("int", "1")>>),
     TupleValue(<<Item("str", "a"), Item("int", "1")>>),
     TupleValue(<< >>), TupleValue(<<Item("bytes", "a")>>),
     ListValue(<<Item("str", "a")>>), OtherValue}
RouterTags == {NoTag, "gpu"}
\* the callbacks the application registers under a value: one pair per
\* value, the postprocessor of an int value errorifies
PreprocessorOf(value) == Callback(value.items, FALSE)
PostprocessorOf(value) ==
    Callback(value.items, \E i \in DOMAIN value.items :
                              value.items[i].type = "int")
\* the static_state a preprocessor returns: k for the k-th request, so that
\* no two requests carry the same one
StaticStates == {Len(issued) + 1}

\* A router over the executor: processor pairs are registered before the
\* first request, the executor is started once and its handler accepts or
\* rejects each request it is shown.
NextRouter ==
    \/ \E pool \in RouterPools : router_init(pool)
    \/ \E value \in RouterValues, tag \in RouterTags :
           /\ issued = << >>
           /\ register_processor_pair(value, PreprocessorOf(value),
                                      PostprocessorOf(value), tag)
    \/ \E value \in RouterValues, s \in StaticStates, pre_raises \in BOOLEAN :
           MaySubmit /\ router_queue_request(value, s, pre_raises)
    \/ \E value \in RouterValues, s \in StaticStates, pre_raises \in BOOLEAN :
           MaySubmit /\ queue_request_suppress_exc(value, s, pre_raises)
    \/ \E token \in CallerTokens : router_poll_response(token)
    \/ \E token \in CallerTokens :
           marks < MaxCancelMarks /\ router_cancel_request(token)
    \/ \E c \in Callers : thread = 0 /\ start(c, FALSE)
    \/ \E w \in Threads : Runner(w, {TRUE})
    \/ \E w \in Threads : Transfers(w)
    \/ \E w \in Threads : Cancellations(w)
    \/ \E w \in Threads : Handler(w, Cooperative)

SpecRouter == Init /\ [][NextRouter]_vars


\* ------------------------------------------------------ router properties
\* what the executor's poll_response(token) returns to the router
ExecutorAnswer(token) ==
    PollOutcome(token, external_responses, external_lifecycle)

\* C21: the router's poll_response(token) returns None when the executor has
\* no response yet; it returns a response that has_error as it is and calls
\* no postprocessor; otherwise it calls, once and never again for that
\* token, the postprocessor registered under the value that was passed to
\* the queue_request that produced the token, with the static_state that
\* request's preprocessor returned, and returns the response as the
\* postprocessor left it.
C21_RouterPoll ==
    /\ [](\A token \in CallerTokens :
            /\ is_single_executor /\ ExecutorAnswer(token).kind = "None" =>
                   /\ RouterPollOutcome(token).kind = "None"
                   /\ RouterPollOutcome(token).calls = << >>
            /\ token \in DOMAIN post_calls => Len(post_calls[token]) = 1)
    /\ [][\A token \in CallerTokens :
            router_poll_response(token) /\ is_single_executor
                /\ ExecutorAnswer(token).kind = "response" =>
            LET response == ExecutorAnswer(token).resp
                fn == registered_processors[routed[token].vtuple][2]
            IN IF has_error(response)
               THEN /\ post_calls' = post_calls
                    /\ RouterPollOutcome(token).resp = response
                    /\ Delivers(token) => returned'[token] = response
               ELSE /\ token \in DOMAIN routed
                    /\ token \notin DOMAIN post_calls
                    /\ post_calls'[token] =
                           <<[fn |-> fn,
                              static_state |-> routed[token].static_state]>>
                    /\ fn.name = routed[token].vtuple
                    /\ returned'[token] =
                           Postprocess(fn, response,
                                       routed[token].static_state)]_vars
\* two tokens queued under different values were answered: one response was
\* postprocessed (and changed by its postprocessor), the other was rejected
\* and returned as it was
C21_Witness ==
    \E t, u \in DOMAIN returned :
        /\ routed[t].vtuple # routed[u].vtuple
        /\ t \in DOMAIN post_calls
        /\ returned[t].error_msg = PostMsg
        /\ u \notin DOMAIN post_calls
        /\ returned[u].error_msg = RejectMsg


\* a registration the claim requires to be rejected: the value is not a
\* nonempty tuple of str/int/float, its arity differs from that of the
\* values registered so far, it is registered already, or (in pool mode) the
\* executor_tag is missing or no key of the pool
MustReject(value, executor_tag) ==
    \/ value.cls # "tuple"
    \/ value.items = << >>
    \/ \E i \in DOMAIN value.items :
           value.items[i].type \notin {"str", "int", "float"}
    \/ \E v \in DOMAIN registered_processors : Len(v) # Len(value.items)
    \/ value.items \in DOMAIN registered_processors
    \/ /\ executor_pool.kind = "dict"
       /\ executor_tag = NoTag \/ executor_tag \notin executor_pool.tags

RegistryVars ==
    <<registered_processors, registered_processors_to_exec, rp_length>>

\* C22: register_processor_pair raises exactly on the registrations that
\* must be rejected, and then leaves registered_processors, the
\* value-to-executor map and the recorded arity as they were; the registry
\* changes only by an accepted registration, which adds its value with its
\* pair and records its arity; so all registered values have the recorded
\* arity, are nonempty tuples of str/int/float, and keep the pair they were
\* registered with.
C22_RegistrationRejects ==
    /\ [](RouterBuilt =>
            /\ \A value \in RouterValues, tag \in RouterTags :
                   MustReject(value, tag) <=> RegisterRaises(value, tag) # ""
            /\ \A v \in DOMAIN registered_processors :
                   /\ Len(v) = rp_length /\ v # << >>
                   /\ \A i \in DOMAIN v : v[i].type \in {"str", "int", "float"}
                   /\ registered_processors[v] =
                          <<PreprocessorOf(TupleValue(v)),
                            PostprocessorOf(TupleValue(v))>>
            /\ executor_pool.kind = "dict" =>
                   /\ DOMAIN registered_processors_to_exec =
                          DOMAIN registered_processors
                   /\ \A v \in DOMAIN registered_processors_to_exec :
                          registered_processors_to_exec[v] \in
                              executor_pool.tags)
    /\ [][RegistryVars' # RegistryVars /\ RouterBuilt =>
            \E value \in RouterValues, tag \in RouterTags :
                /\ ~MustReject(value, tag)
                /\ registered_processors' =
                       Put(registered_processors, value.items,
                           <<PreprocessorOf(value), PostprocessorOf(value)>>)
                /\ rp_length' = Len(value.items)]_vars
\* two values are registered, after which every value of RouterValues is
\* rejected: by its type, its arity, its items or as a repetition
C22_Witness ==
    /\ Cardinality(DOMAIN registered_processors) = 2
    /\ rp_length = 1
    /\ \A value \in RouterValues, tag \in RouterTags : MustReject(value, tag)


\* value is registered and passes the tests of lines 191-198
Routable(value) ==
    /\ value.cls \in {"list", "tuple"}
    /\ value.items \in DOMAIN registered_processors
ExecutorVars == <<gen_vars, ext_vars, int_vars, ctl_vars, issued>>

\* C23: queue_request_suppress_exc with a registered value returns
\* (message, False) and does not raise when the executor raises
\* PoolFullException or the preprocessor raises; the executor is then left
\* as it was, no token consumed and nothing queued; otherwise it returns
\* (token, True) with the token queue_request returns, the executor's next
\* token, which is then queued.
C23_SuppressedExceptions ==
    /\ [](\A value \in RouterValues, s \in StaticStates, pre \in BOOLEAN :
            RouterBuilt /\ Routable(value) =>
                LET ret == SuppressOutcome(value, s, pre).ret
                IN /\ SuppressOutcome(value, s, pre).raises = ""
                   /\ IF pre \/ Cardinality(DOMAIN external_lifecycle)
                                   >= max_handle_requests_and_responses
                      THEN ret[2] = FALSE
                      ELSE /\ ret = <<strtoken, TRUE>>
                           /\ RouterQueueOutcome(value, s, pre).raises = ""
                           /\ RouterQueueOutcome(value, s, pre).token = ret[1])
    /\ [][\A value \in {v \in RouterValues : Routable(v)},
             s \in StaticStates, pre \in BOOLEAN :
            IF SuppressOutcome(value, s, pre).ret[2]
            THEN queue_request_suppress_exc(value, s, pre) =>
                     /\ issued' = Append(issued, strtoken)
                     /\ external_requests_queue' =
                            Append(external_requests_queue, strtoken)
                     /\ external_requests_queue_data'[strtoken] =
                            RoutedRequest(s, value)
            ELSE ExecutorVars' # ExecutorVars =>
                     ~queue_request_suppress_exc(value, s, pre)]_vars
\* the pool is full while a value is registered: the executor raises
\* PoolFullException on the router's call
C23_Witness ==
    /\ is_single_executor
    /\ \E value \in RouterValues : Routable(value)
    /\ Cardinality(DOMAIN external_lifecycle)
           >= max_handle_requests_and_responses
    /\ Len(issued) >= 2


\* C24: a router can be built over every mapping of str tags to executors;
\* its poll_response and cancel_request split the token they are given and
\* do not raise: a token that is too short or has an unknown prefix gets an
\* error response from poll_response and is ignored by cancel_request, any
\* other token is forwarded to the executor of its prefix.
C24_PoolRouting ==
    /\ \A pool \in RouterPools :
           pool.kind = "dict" => RouterInitRaises(pool) = ""
    /\ executor_pool.kind = "dict" => SplitRaises = ""


\* ---------------------------------------------- invariants of the executor
\* Every `with self.__lock_external:` block is one step of the model, so
\* the external lock is free in every state.

\* C25: outside the critical sections the lifecycle map never has more than
\* max_handle_requests_and_responses keys.
C25_Capacity ==
    Cardinality(DOMAIN external_lifecycle) <= max_handle_requests_and_responses


\* C26: every key of external_responses is a key of the lifecycle map,
\* whatever producer calls interleave with the worker's iterations.
C26_ResponsesStamped ==
    DOMAIN external_responses \subseteq DOMAIN external_lifecycle

\* C27: every token in the external queue has its request in
\* external_request_data and an entry in the lifecycle map.
C27_QueuedTokensKnown ==
    \A i \in DOMAIN external_requests_queue :
        /\ external_requests_queue[i] \in DOMAIN external_requests_queue_data
        /\ external_requests_queue[i] \in DOMAIN external_lifecycle
\* a token waits in the external queue while another one has been moved on
\* and answered
C27_Witness ==
    /\ external_requests_queue # << >>
    /\ DOMAIN external_responses # {}
    /\ \E w \in Threads : wpc[w] = "cancel_external"

\* C28: no token is a key of external_request_data and of
\* external_responses at once.
C28_DataOrResponse ==
    DOMAIN external_requests_queue_data \cap DOMAIN external_responses = {}
\* a request waits in external_request_data while a response waits in
\* external_responses, and the worker is about to store responses
C28_Witness ==
    /\ DOMAIN external_requests_queue_data # {}
    /\ DOMAIN external_responses # {}
    /\ \E w \in Threads : wpc[w] \in {"i2x_external", "cancel_external"}


\* C29: when the external block of the cancellation pass finds marked tokens
\* in the external queue, it removes each of them from the queue and from
\* external_request_data, stores a CancelledResponse under the token in
\* external_responses, refreshes the token's lifecycle entry, calls
\* _handle_request_cancel for none of them, and the iteration goes on.
C29_CancelInExternalQueue ==
    [][\A w \in Threads :
          handle_cancellations_external(w)
              /\ QueuedToCancel(wlocal[w].to_cancel) # {} =>
          /\ \A i \in QueuedToCancel(wlocal[w].to_cancel) :
                 LET token == wlocal[w].to_cancel[i]
                 IN /\ token \notin Range(external_requests_queue')
                    /\ token \notin DOMAIN external_requests_queue_data'
                    /\ token \in DOMAIN external_responses'
                    /\ is_cancelled(external_responses'[token])
                    /\ token \in DOMAIN external_lifecycle'
                    /\ external_lifecycle'[token] = now
          /\ cancel_calls' = cancel_calls
          /\ wpc'[w] = "handle"]_vars


\* ------------------------------------------------------------- TTL expiry
\* A running executor whose responses nobody polls for, while time passes:
\* requests are queued and cancelled, the implementation accepts or rejects
\* every token it is shown, and the worker thread is scheduled fairly.
NextExpiry ==
    \/ \E x \in Requests : Len(issued) < MaxSubmits /\ queue_request(x)
          /\ UNCHANGED rt_vars
    \/ \E tok \in CallerTokens : marks < MaxCancelMarks /\ cancel_request(tok)
          /\ UNCHANGED rt_vars
    \/ Tick
    \/ \E c \in Callers : thread = 0 /\ start(c, FALSE)
    \/ \E w \in Threads : Runner(w, {TRUE})
    \/ \E w \in Threads : Transfers(w)
    \/ \E w \in Threads : Cancellations(w)
    \/ \E w \in Threads : Handler(w, Cooperative)

FairExpiry ==
    /\ \A w \in Threads :
           WF_vars(Runner(w, {TRUE}) \/ Transfers(w) \/ Cancellations(w)
                       \/ Handler(w, Cooperative))
    /\ WF_vars(\E c \in Callers : thread = 0 /\ start(c, FALSE))

SpecExpiry == Init /\ [][NextExpiry]_vars /\ FairExpiry

\* the response under key k has been in external_responses for longer than
\* old_cleanup_time
Overdue(k) ==
    /\ k \in DOMAIN external_responses
    /\ k \in DOMAIN external_lifecycle
    /\ now - external_lifecycle[k] > old_cleanup_time

\* C30: while the executor runs, every response that has stayed in
\* external_responses for longer than old_cleanup_time is eventually removed
\* by the worker's periodic cleanup, response and lifecycle entry both.
C30_WorkerExpiresResponses ==
    \A i \in 1..MaxSubmits : \A side \in {1, 0 - 1} :
        (Len(issued) >= i /\ Overdue(side * issued[i]))
            ~> (/\ Len(issued) >= i
                /\ side * issued[i] \notin DOMAIN external_responses
                /\ side * issued[i] \notin DOMAIN external_lifecycle)


\* -------------------------------------------------------- lock discipline
\* variant of LocksHeld in which the internal block of the cancellation pass
\* (lines 186-195) is nested in the `with self.__lock_external:` of line 179
LocksHeldNested(w) ==
    IF wpc[w] \in {"x2i_external", "i2x_external", "cleanup", "cancel_copy",
                   "cancel_external"}
    THEN {"external"}
    ELSE IF wpc[w] = "cancel_internal" THEN {"external", "internal"}
    ELSE IF wpc[w] \in {"x2i_internal", "i2x_internal", "handling",
                        "fatal_stop"}
    THEN {"internal"}
    ELSE {}

\* the locks of the executor that worker thread w holds while it takes the
\* step at its position: `with self.__lock_external:` of lines 142, 165,
\* 415 (called at line 116), 179 and 197, `with self.__lock_internal:` of
\* lines 149, 161, 186 and 122 (kept through line 131); every block is left
\* before the next one is entered
LocksHeld(w) ==
    IF wpc[w] \in {"x2i_external", "i2x_external", "cleanup", "cancel_copy",
                   "cancel_external"}
    THEN {"external"}
    ELSE IF wpc[w] \in {"x2i_internal", "i2x_internal", "cancel_internal",
                        "handling", "fatal_stop"}
    THEN {"internal"}
    ELSE {}

\* the positions at which the step of a worker runs the user's
\* _handle_request_cancel (line 192) or _handle_all_requests (line 127)
RunsUserCode(w) == wpc[w] \in {"cancel_internal", "handling"}

\* C31: no thread holds the external and the internal lock at once (so none
\* acquires one while it holds the other), a thread that keeps the internal
\* lock between two steps holds only that one, and the steps that run
\* _handle_request_cancel or _handle_all_requests are taken without the
\* external lock and touch nothing it guards: queue_request, poll_response
\* and cancel_request never wait for user code.
C31_LockDiscipline ==
    /\ [](\A w \in Threads :
              /\ ~({"external", "internal"} \subseteq LocksHeld(w))
              /\ RunsUserCode(w) => "external" \notin LocksHeld(w)
              /\ lock_internal = w => LocksHeld(w) = {"internal"})
    /\ [][/\ cancel_calls' # cancel_calls \/ shown' # shown
              => /\ ext_vars' = ext_vars
                 /\ \E w \in Threads :
                        /\ RunsUserCode(w)
                        /\ wpc'[w] # wpc[w]
                        /\ LocksHeld(w) = {"internal"}
          /\ ext_vars' # ext_vars
              => \A w \in Threads :
                     wpc'[w] # wpc[w] => LocksHeld(w) = {"external"}]_vars

\* the worker is inside _handle_all_requests with a token to handle, and a
\* request queued since this iteration's transfer waits in the external queue
C31_Witness ==
    /\ \E w \in Threads : wpc[w] = "handling" /\ lock_internal = w
    /\ internal_requests_queue # << >>
    /\ external_requests_queue # << >>


\* --------------------------------------------------- lifecycle of a token
\* where token t is: 1 the external queue, 2 the batch a worker carries to
\* the internal queue, 3 the internal queue, 4 the internal responses, 5 the
\* responses a worker carries out, 6 the external responses, 7 gone
Location(t) ==
    IF t \in Range(external_requests_queue) THEN 1
    ELSE IF \E w \in Threads : t \in Range(wlocal[w].prev_external_requests)
    THEN 2
    ELSE IF t \in Range(internal_requests_queue) THEN 3
    ELSE IF t \in DOMAIN internal_responses THEN 4
    ELSE IF \E w \in Threads : t \in DOMAIN wlocal[w].responses THEN 5
    ELSE IF t \in DOMAIN external_responses THEN 6
    ELSE 7

\* C32: a token starts in the external queue and only moves forward:
\* external queue, internal queue, internal responses, external responses,
\* gone (a cancellation takes it from a queue to a response store); it never
\* returns to an earlier place, and once it is gone the executor does not
\* know it and never knows it again.
C32_ForwardOnly ==
    /\ [](\A t \in Range(issued) : Location(t) = 7 => Unknown(t))
    /\ [][/\ \A t \in Range(issued) :
                 /\ Location(t)' >= Location(t)
                 /\ Unknown(t) => Unknown(t)'
          /\ \A t \in Range(issued') \ Range(issued) : Location(t)' = 1]_vars


\* ------------------------------------------------ tokens left in the queue
\* thread w returns from _handle_all_requests in this step
HandlerReturns(w) == wpc[w] = "handling" /\ wpc'[w] # "handling"

\* C33: a token of the internal queue that _handle_all_requests neither
\* accepts nor rejects stays in the queue, in its place and with its request
\* data, and every call of _handle_all_requests is handed all tokens of the
\* queue, until the token is accepted, rejected or cancelled; accept and
\* reject act on the real queue, data and responses, and the call still
\* reaches every token of the snapshot it was handed.
C33_UnhandledTokensStay ==
    /\ [](Range(internal_requests_queue) = DOMAIN internal_requests_data)
    /\ [][/\ \A t \in Range(internal_requests_queue) :
                 /\ t \in Range(internal_requests_queue')
                        => internal_requests_data'[t] = internal_requests_data[t]
                 /\ t \notin Range(internal_requests_queue')
                        => \E w \in Threads :
                               \/ HandlerReturns(w)
                               \/ /\ handle_cancellations_internal(w)
                                  /\ t \in Range(wlocal[w].to_cancel)
          /\ \A w \in Threads :
                 HandlerReturns(w) =>
                     /\ Range(internal_requests_queue) \subseteq shown'
                     /\ \A decide \in [Range(internal_requests_queue) -> Decisions],
                           raises \in BOOLEAN :
                            handle_all_requests(w, decide, raises) =>
                                /\ internal_requests_queue' =
                                       SelectSeq(internal_requests_queue,
                                           LAMBDA t : decide[t].act = "skip")
                                /\ \A t \in Range(internal_requests_queue) :
                                       decide[t].act # "skip" =>
                                           /\ t \in DOMAIN internal_responses'
                                           /\ t \notin DOMAIN internal_requests_data'
         ]_vars

\* a token that an earlier call of _handle_all_requests left in the queue is
\* about to be handed to the next call, together with a token queued later
C33_Witness ==
    \E w \in Threads :
        /\ wpc[w] = "handling"
        /\ Len(internal_requests_queue) = 2
        /\ internal_requests_queue[1] \in shown
        /\ internal_requests_queue[2] \notin shown


\* ------------------------------------------------- answering a token twice
\* An executor whose implementation may answer a token a second time in the
\* same call, and may raise out of _handle_all_requests when accept or
\* reject raised.
NextMisuse ==
    \/ \E x \in Requests : Len(issued) < MaxSubmits /\ queue_request(x)
          /\ UNCHANGED rt_vars
    \/ \E tok \in Range(issued) : marks < MaxCancelMarks /\ cancel_request(tok)
          /\ UNCHANGED rt_vars
    \/ \E c \in Callers : thread = 0 /\ start(c, FALSE)
    \/ \E w \in Threads : Runner(w, {TRUE})
    \/ \E w \in Threads : runner_shutdown(w)
    \/ \E w \in Threads : Transfers(w)
    \/ \E w \in Threads : Cancellations(w)
    \/ \E w \in Threads : Handler(w, Decisions \cup Misuses)
    \/ \E w \in Threads : FatalHandler(w, Decisions \cup Misuses)

SpecMisuse == Init /\ [][NextMisuse]_vars

\* the internal structures accept and reject work on
InternalState ==
    [queue |-> internal_requests_queue, data |-> internal_requests_data,
     responses |-> internal_responses]

\* C34: accept and reject of a token that is not in the internal queue
\* (answered before, cancelled, not transferred yet, never issued) raise and
\* leave the internal queue, data and responses as they are; a token
\* answered twice in one call keeps its first response, and no stored
\* response is ever replaced by another.
C34_NoSecondResponse ==
    /\ [](\A t \in CallerTokens \ Range(internal_requests_queue) :
              /\ AcceptRaises(InternalState, t)
              /\ \A r \in UserResponses : accept(InternalState, t, r) = InternalState
              /\ reject(InternalState, t, RejectMsg) = InternalState)
    /\ [][/\ \A k \in DOMAIN internal_responses \cap DOMAIN internal_responses' :
                 internal_responses'[k] = internal_responses[k]
          /\ \A w \in Threads :
                 HandlerReturns(w) =>
                     \A decide \in [Range(internal_requests_queue) ->
                                        Decisions \cup Misuses],
                        raises \in BOOLEAN :
                         handle_all_requests(w, decide, raises) =>
                             \A t \in Range(internal_requests_queue) :
                                 /\ decide[t].act = "accept_reject" =>
                                        internal_responses'[t] =
                                            set_static_state(decide[t].response,
                                                internal_requests_data[t].static_state)
                                 /\ decide[t].act = "reject_accept" =>
                                        internal_responses'[t] =
                                            set_static_state(ErrorResponse(RejectMsg),
                                                internal_requests_data[t].static_state)
         ]_vars

\* one token was accepted and one rejected in the same call: neither is in
\* the internal queue any more, and both responses wait for their transfer
C34_Witness ==
    /\ internal_requests_queue = << >>
    /\ \E t, u \in Range(issued) :
           /\ t \in DOMAIN internal_responses
           /\ u \in DOMAIN internal_responses
           /\ has_error(internal_responses[t])
           /\ is_successful_response(internal_responses[u])


\* ------------------------------------------------ orphaned lifecycle entries
\* the places that hold key k: the external queue, the batch and the
\* responses a worker carries between the two sides, the internal queue, the
\* internal and the external responses
Places(k) ==
    {p \in {"external_queue", "batch", "internal_queue", "internal_responses",
            "carried_responses", "external_responses"} :
        \/ p = "external_queue" /\ k \in Range(external_requests_queue)
        \/ p = "batch" /\ \E w \in Threads :
                              k \in Range(wlocal[w].prev_external_requests)
        \/ p = "internal_queue" /\ k \in Range(internal_requests_queue)
        \/ p = "internal_responses" /\ k \in DOMAIN internal_responses
        \/ p = "carried_responses" /\ \E w \in Threads :
                                          k \in DOMAIN wlocal[w].responses
        \/ p = "external_responses" /\ k \in DOMAIN external_responses}

\* C35: every key of the lifecycle map is in exactly one place, under that
\* same key: a queue, a batch in transit or a response store; so every entry
\* that counts against max_handle_requests_and_responses can still be
\* answered, polled or expired.
C35_NoOrphanedLifecycle ==
    \A k \in DOMAIN external_lifecycle : Cardinality(Places(k)) = 1


\* ------------------------------------------------------ one worker thread
\* C36: at no time are two worker threads of the executor inside
\* _process_iteration, whatever start and stop calls were made, a
\* stop(await_thread_stop=False) directly followed by a start included.
C36_OneWorker ==
    \A w, v \in Threads : InIteration(w) /\ InIteration(v) => w = v


\* ------------------------------------------------------- the running flag
\* what is_running() returns (line 433)
is_running == running

\* C37: whenever the executor's worker thread has ended, is_running()
\* returns False, so that a later start spawns a new worker.
C37_RunningAgreesWithWorker ==
    thread # 0 /\ wpc[thread] = "dead" => ~is_running

====
